---------------------------- MODULE Spec2Model ----------------------------
(***************************************************************************)
(* Chandy-Seidel Pareto elongation (chandy-seidel.js): a model of          *)
(* calculateChandySeidel, generateParetoTail and combineDistributions.     *)
(*                                                                         *)
(* Numbers.  A JavaScript number is modelled as a pair <<n, d>> of         *)
(* integers: d > 0 is the rational n/d in lowest terms, <<1, 0>> is        *)
(* Infinity, <<-1, 0>> is -Infinity, <<0, 0>> is NaN and <<0, -1>> is a    *)
(* missing value (null).  Arithmetic is exact: the rounding of IEEE        *)
(* doubles and the sign of zero are not modelled.                          *)
(*                                                                         *)
(* Logarithms and powers.  The code uses Math.log only in the quotient     *)
(* Math.log(x) / Math.log(y) + 1 and Math.pow only with exponents derived  *)
(* from that quotient.  The quotient is a number of the model when x and y *)
(* are powers of two (or x is 0, 1, negative or not finite); otherwise it  *)
(* is kept as the term <<x, y, One>>, read "ln x / ln y + 1", whose sign   *)
(* and order against 1 are decided exactly.  y^alpha for that alpha is     *)
(* x * y exactly.  (1 - pPareto)^(1 - 1/alpha) is a number for the bases 0 *)
(* and 1 and the term <<"pow", base, alpha>> otherwise.                    *)
(***************************************************************************)
EXTENDS Integers, Sequences, FiniteSets, TLC

(***************************************************************************)
(* Numbers                                                                 *)
(***************************************************************************)
RECURSIVE Gcd(_, _)
Gcd(a, b) == IF b = 0 THEN a ELSE Gcd(b, a % b)

Abs(n) == IF n < 0 THEN -n ELSE n

Sign(n) == IF n > 0 THEN 1 ELSE IF n < 0 THEN -1 ELSE 0

\* n/d in lowest terms with a positive denominator (d # 0)
Rat(n, d) ==
    LET g == Gcd(Abs(n), Abs(d))
        s == IF d < 0 THEN -1 ELSE 1
    IN  <<(s * n) \div g, (s * d) \div g>>

Zero == <<0, 1>>
One == <<1, 1>>
NaN == <<0, 0>>
PosInf == <<1, 0>>
NegInf == <<-1, 0>>
Hundred == <<100, 1>>
Null == <<0, -1>>
Undefined == <<0, -2>>

\* a number is a pair; a term (an unevaluated real expression) is a triple
\* <<operation, left, right>>
IsNumber(v) == Len(v) = 2
Term(op, a, b) == <<op, a, b>>
IsTerm(v) == Len(v) = 3
IsNull(v) == IsNumber(v) /\ v[2] = -1
IsUndefined(v) == IsNumber(v) /\ v[2] = -2
IsNaN(v) == IsNumber(v) /\ v[2] = 0 /\ v[1] = 0
IsInf(v) == IsNumber(v) /\ v[2] = 0 /\ v[1] # 0
\* isFinite(v) of a number
IsFinite(v) == IsNumber(v) /\ v[2] > 0

\* ToNumber: null converts to +0, undefined to NaN, every number to itself
ToNum(v) == IF IsNull(v) THEN Zero ELSE IF IsUndefined(v) THEN NaN ELSE v

\* sign of a number that is not NaN
SignOf(v) == Sign(v[1])

Neg(a) == <<-a[1], a[2]>>

\* k with n = 2^k, for a positive integer n that is a power of two
RECURSIVE IsPow2(_)
IsPow2(n) == n = 1 \/ (n > 1 /\ n % 2 = 0 /\ IsPow2(n \div 2))

RECURSIVE Log2Int(_)
Log2Int(n) == IF n <= 1 THEN 0 ELSE 1 + Log2Int(n \div 2)

RECURSIVE PowInt(_, _)
PowInt(b, k) == IF k <= 0 THEN 1 ELSE b * PowInt(b, k - 1)

\* a positive rational that is 2^k for an integer k, and that k
IsDyadicPower(q) ==
    IsNumber(q) /\ q[2] > 0 /\ q[1] > 0
    /\ ((q[2] = 1 /\ IsPow2(q[1])) \/ (q[1] = 1 /\ IsPow2(q[2])))

Log2Of(q) == IF q[2] = 1 THEN Log2Int(q[1]) ELSE -Log2Int(q[2])

\* 2^k as a number, k any integer
Pow2(k) == IF k >= 0 THEN <<PowInt(2, k), 1>> ELSE <<1, PowInt(2, -k)>>

\* the term Math.log(q) of a positive finite q other than 1
IsLn(v) == IsTerm(v) /\ v[1] = "ln"
\* sign of ln q: the sign of q - 1
SignLn(t) == Sign(t[2][1] - t[2][2])

Add(a0, b0) ==
    LET a == ToNum(a0)
        b == ToNum(b0)
    IN  IF IsNaN(a) \/ IsNaN(b) THEN NaN
        ELSE IF IsTerm(a0) \/ IsTerm(b0) THEN Term("+", a0, b0)
        ELSE IF IsInf(a) /\ IsInf(b) THEN (IF a = b THEN a ELSE NaN)
        ELSE IF IsInf(a) THEN a
        ELSE IF IsInf(b) THEN b
        ELSE LET g == Gcd(a[2], b[2])
             IN  Rat(a[1] * (b[2] \div g) + b[1] * (a[2] \div g),
                     (a[2] \div g) * b[2])

Sub(a, b) ==
    IF IsNaN(ToNum(a)) \/ IsNaN(ToNum(b)) THEN NaN
    ELSE IF IsTerm(a) \/ IsTerm(b) THEN Term("-", a, b)
    ELSE Add(a, Neg(ToNum(b)))

Mul(a0, b0) ==
    LET a == ToNum(a0)
        b == ToNum(b0)
    IN  IF IsNaN(a) \/ IsNaN(b) THEN NaN
        ELSE IF IsTerm(a0) \/ IsTerm(b0) THEN Term("*", a0, b0)
        ELSE IF IsInf(a) \/ IsInf(b)
             THEN (IF SignOf(a) * SignOf(b) = 0 THEN NaN
                   ELSE <<SignOf(a) * SignOf(b), 0>>)
        ELSE LET g == Gcd(Abs(a[1]), b[2])
                 h == Gcd(Abs(b[1]), a[2])
             IN  Rat((a[1] \div g) * (b[1] \div h), (a[2] \div h) * (b[2] \div g))

Div(a0, b0) ==
    LET a == ToNum(a0)
        b == ToNum(b0)
    IN  IF IsNaN(a) \/ IsNaN(b) THEN NaN
        \* ln(2^j) / ln(2^k) = j / k
        ELSE IF IsLn(a0) /\ IsLn(b0) /\ IsDyadicPower(a0[2]) /\ IsDyadicPower(b0[2])
            THEN Rat(Log2Of(a0[2]), Log2Of(b0[2]))
        \* NaN, 0 and the infinities divided by a logarithm of known sign
        ELSE IF IsNumber(a0) /\ IsLn(b0) /\ (~IsFinite(a) \/ a = Zero)
            THEN (IF IsInf(a) THEN <<SignOf(a) * SignLn(b0), 0>> ELSE a)
        ELSE IF IsTerm(a0) \/ IsTerm(b0) THEN Term("/", a0, b0)
        ELSE IF IsInf(a) THEN (IF IsInf(b) THEN NaN
                               ELSE IF SignOf(b) < 0 THEN Neg(a) ELSE a)
        ELSE IF IsInf(b) THEN Zero
        ELSE IF b[1] = 0 THEN <<SignOf(a), 0>>
        ELSE LET g == Gcd(Abs(a[1]), Abs(b[1]))
                 h == Gcd(a[2], b[2])
             IN  Rat((a[1] \div g) * (b[2] \div h), (a[2] \div h) * (b[1] \div g))

\* a < b, a <= b, a > b, a >= b: every comparison with NaN is false
Less(a0, b0) ==
    LET a == ToNum(a0)
        b == ToNum(b0)
    IN  IF IsNaN(a) \/ IsNaN(b) THEN FALSE
        ELSE IF IsInf(a) \/ IsInf(b)
             THEN a # b /\ (a = NegInf \/ b = PosInf)
        ELSE LET g == Gcd(a[2], b[2])
             IN  a[1] * (b[2] \div g) < b[1] * (a[2] \div g)

LessEq(a0, b0) ==
    LET a == ToNum(a0)
        b == ToNum(b0)
    IN  IF IsNaN(a) \/ IsNaN(b) THEN FALSE ELSE Less(a, b) \/ a = b

Greater(a, b) == Less(b, a)
GreaterEq(a, b) == LessEq(b, a)

\* !v of a number or a missing value: null, 0 and NaN are falsy
Falsy(v) == IsNull(v) \/ IsUndefined(v) \/ IsNaN(v) \/ v = Zero

(***************************************************************************)
(* Math.log, Math.pow, Math.floor, Number.prototype.toFixed                *)
(***************************************************************************)
MathLog(q0) ==
    LET q == ToNum(q0)
    IN  IF IsTerm(q0) THEN Term("ln", q0, Zero)
        ELSE IF IsNaN(q) THEN NaN
        ELSE IF q = PosInf THEN PosInf
        ELSE IF SignOf(q) < 0 THEN NaN
        ELSE IF q = Zero THEN NegInf
        ELSE IF q = One THEN Zero
        ELSE Term("ln", q, Zero)

\* the shape ln x / ln y + 1 of the Pareto parameter
IsLogQuotientPlusOne(v) ==
    /\ IsTerm(v) /\ v[1] = "+" /\ v[3] = One
    /\ IsTerm(v[2]) /\ v[2][1] = "/" /\ IsLn(v[2][2]) /\ IsLn(v[2][3])

\* v <= 1 for a number or a term ln x / ln y + 1
LessEqOne(v) ==
    IF IsNumber(v) THEN LessEq(v, One)
    ELSE IF IsLogQuotientPlusOne(v) THEN SignLn(v[2][2]) * SignLn(v[2][3]) <= 0
    ELSE CHOOSE b \in {} : TRUE

\* isFinite(v): a term stands for a finite real
IsFiniteReal(v) == IF IsNumber(v) THEN IsFinite(v) ELSE TRUE

\* the sign of an exponent 1 - 1/alpha
SignOfExponent(e) ==
    IF IsNumber(e) THEN SignOf(e)
    ELSE IF /\ e[1] = "-" /\ e[2] = One /\ IsTerm(e[3]) /\ e[3][1] = "/"
            /\ e[3][2] = One /\ IsLogQuotientPlusOne(e[3][3])
         THEN (IF LessEqOne(e[3][3]) THEN -1 ELSE 1)
    ELSE CHOOSE b \in {} : TRUE

\* Math.pow(base, e) for a finite base >= 0
MathPow(base, e) ==
    IF IsLogQuotientPlusOne(e) /\ e[2][3][2] = base
        \* y^(ln x / ln y + 1) = x * y
        THEN Mul(e[2][2][2], base)
    ELSE IF base = One THEN One
    ELSE IF base = Zero
        THEN (IF SignOfExponent(e) > 0 THEN Zero
              ELSE IF SignOfExponent(e) = 0 THEN One ELSE PosInf)
    ELSE IF /\ IsFinite(e) /\ IsDyadicPower(base)
            /\ (Log2Of(base) * e[1]) % e[2] = 0
        \* (2^k)^(n/d) = 2^(k*n/d) when d divides k*n
        THEN Pow2((Log2Of(base) * e[1]) \div e[2])
    ELSE Term("pow", base, e)

\* Math.floor of a finite number
MathFloor(v) == <<v[1] \div v[2], 1>>

\* Math.max(a, b) and the minimum and maximum of a list of finite numbers
Max2(a, b) == IF Less(a, b) THEN b ELSE a

RECURSIVE MathMin(_)
MathMin(s) ==
    IF Len(s) = 1 THEN s[1]
    ELSE LET m == MathMin(Tail(s))
         IN  IF IsNaN(ToNum(s[1])) \/ IsNaN(m) THEN NaN
             ELSE IF Less(s[1], m) THEN s[1] ELSE m

RECURSIVE MathMax(_)
MathMax(s) ==
    IF Len(s) = 1 THEN s[1]
    ELSE LET m == MathMax(Tail(s))
         IN  IF IsNaN(ToNum(s[1])) \/ IsNaN(m) THEN NaN
             ELSE IF Less(m, s[1]) THEN s[1] ELSE m

\* v.toFixed(places): "NaN", "Infinity" and "-Infinity" for a value that is
\* not finite; otherwise the sign, the integer part and the `places` decimals
\* of v rounded to the nearest multiple of 10^-places (ties away from zero).
\* The digits of a term are not computed: the text records the term.
ToFixed(v, places) ==
    IF IsTerm(v) THEN [text |-> "digits", of |-> v, places |-> places]
    ELSE IF IsNaN(v) THEN [text |-> "NaN"]
    ELSE IF v = PosInf THEN [text |-> "Infinity"]
    ELSE IF v = NegInf THEN [text |-> "-Infinity"]
    ELSE LET scale == PowInt(10, places)
             n == (2 * Abs(v[1]) * scale + v[2]) \div (2 * v[2])
         IN  [text |-> "digits", neg |-> v[1] < 0, whole |-> n \div scale,
              frac |-> n % scale, places |-> places]

(***************************************************************************)
(* Arrays                                                                  *)
(***************************************************************************)
\* the argument `distribution` when it is null or undefined
AbsentDistribution == <<[absent |-> TRUE]>>
IsAbsent(d) == Len(d) = 1 /\ "absent" \in DOMAIN d[1]

\* distribution.findIndex(d => d.p >= topDecileCutoff), 1-based; 0 for -1
RECURSIVE FindIndexFrom(_, _, _)
FindIndexFrom(dist, cutoff, i) ==
    IF i > Len(dist) THEN 0
    ELSE IF GreaterEq(dist[i].p, cutoff) THEN i
    ELSE FindIndexFrom(dist, cutoff, i + 1)

FindIndex(dist, cutoff) == FindIndexFrom(dist, cutoff, 1)

\* combined.sort((a, b) => a.p - b.p): Array.prototype.sort is stable, so
\* points of equal p keep their order
\* the position of s[i] after the sort: one more than the number of points
\* that come before it
RankByP(s, i) ==
    1 + Cardinality({ j \in 1..Len(s) :
                        \/ Less(s[j].p, s[i].p)
                        \/ (j < i /\ ~Less(s[i].p, s[j].p)) })

SortByP(s) ==
    LET ranked == { <<RankByP(s, i), i>> : i \in 1..Len(s) }
    IN  [k \in 1..Len(s) |-> s[CHOOSE i \in 1..Len(s) : <<k, i>> \in ranked]]

(***************************************************************************)
(* generateParetoTail                                                      *)
(***************************************************************************)
ParetoPoint(i, numBins, alpha, surveyPctTop, ratio, topDecileL, topDecileP, surveyPct) ==
    LET pPareto == Add(surveyPctTop,
                       Mul(Sub(One, surveyPctTop), Div(<<i, 1>>, numBins)))
        lPareto == Sub(One, MathPow(Sub(One, pPareto),
                                    Sub(One, Div(One, alpha))))
        pAdj == Add(Mul(Mul(pPareto, Sub(One, topDecileP)), surveyPct),
                    Mul(Sub(One, Mul(surveyPctTop, Sub(One, topDecileP))),
                        surveyPct))
        lAdj == Add(Mul(ratio, topDecileL),
                    Mul(lPareto, Sub(One, Mul(ratio, topDecileL))))
    IN  [p |-> pAdj, l |-> lAdj, isPareto |-> TRUE,
         pPareto |-> pPareto, lPareto |-> lPareto]

generateParetoTail(alpha, surveyPctTop, ratio, topDecileL, topDecileP, surveyPct) ==
    LET numBins == Max2(One, Add(MathFloor(Mul(Hundred, Sub(One, surveyPctTop))),
                                 One))
    IN  [i \in 1..numBins[1] |->
            ParetoPoint(i, numBins, alpha, surveyPctTop, ratio, topDecileL,
                        topDecileP, surveyPct)]

(***************************************************************************)
(* combineDistributions                                                    *)
(***************************************************************************)
OriginThreshold == <<1, 1000>>

\* a mutant: the forced point retagged as a tail point
ForceLastAsPareto(combined) ==
    [combined EXCEPT ![Len(combined)] =
        [combined[Len(combined)] EXCEPT !.p = One, !.l = One, !.isPareto = TRUE]]

\* the last point with p and l overwritten by 1
ForceLast(combined) ==
    [combined EXCEPT ![Len(combined)] =
        [combined[Len(combined)] EXCEPT !.p = One, !.l = One]]

\* the origin is prepended when the sorted array is empty or starts above 0.001
NeedsOrigin(sorted) ==
    sorted = <<>> \/ Greater(sorted[1].p, OriginThreshold)

combineDistributions(rescaled, paretoTail) ==
    LET sorted == SortByP(rescaled \o paretoTail)
        combined == IF NeedsOrigin(sorted)
                    THEN <<[p |-> Zero, l |-> Zero, isPareto |-> FALSE]>> \o sorted
                    ELSE sorted
    IN  ForceLast(combined)

(***************************************************************************)
(* calculateChandySeidel                                                   *)
(***************************************************************************)
MinPoints == 10
DefaultGapShare == <<1, 2>>
DefaultTopDecileCutoff == <<9, 10>>

\* A reason is a sequence of text parts: a fixed string, or the parts of the
\* template literal that embeds alpha.toFixed(3).
ReasonInvalidDistribution == <<"Invalid distribution data">>
ReasonInvalidSurveyMean == <<"Invalid survey mean">>
ReasonNoNas == <<"No NAS data available">>
ReasonNoGap == <<"NAS <= Survey mean (no adjustment needed)">>
ReasonNoTopDecile == <<"Could not identify top decile">>
\* a mutant: a reason outside the documented set
ReasonNotEnoughBinsReworded == <<"Too few bins in top decile">>
ReasonNotEnoughBins == <<"Not enough bins in top decile">>
ReasonInvalidTopDecile == <<"Invalid income distribution in top decile">>
ReasonIdenticalIncomes ==
    <<"Cannot calculate alpha (identical incomes in top decile)">>
AlphaDecimals == 3
ReasonInvalidAlpha(alpha) ==
    <<"Invalid Pareto alpha (", ToFixed(alpha, AlphaDecimals), " <= 1)">>

Rejected(reason) == [adjusted |-> FALSE, reason |-> reason]

RejectedWithMeans(reason, surveyMean, nasMean, gap, gapPercent) ==
    [adjusted |-> FALSE, reason |-> reason, surveyMean |-> surveyMean,
     nasMean |-> nasMean, gap |-> gap, gapPercent |-> gapPercent]

\* a mutant: the no-gap result reports the computed difference of the means
NoGapResultComputed(surveyMean, nasMean) ==
    RejectedWithMeans(ReasonNoGap, surveyMean, nasMean, Sub(nasMean, surveyMean),
                      Mul(Div(Sub(nasMean, surveyMean), surveyMean), Hundred))

\* the result when nasMean <= surveyMean
NoGapResult(surveyMean, nasMean) ==
    RejectedWithMeans(ReasonNoGap, surveyMean, nasMean, Zero, Zero)

\* the loop over topDecileBins: lDiff / pDiff of every bin with pDiff > 0;
\* the first bin is compared with the top-decile point itself
RECURSIVE RelativeIncomesFrom(_, _, _, _)
RelativeIncomesFrom(topDecileBins, i, topDecileP, topDecileL) ==
    IF i > Len(topDecileBins) THEN <<>>
    ELSE LET curr == topDecileBins[i]
             pDiff == Sub(curr.p, IF i > 1 THEN topDecileBins[i - 1].p
                                  ELSE topDecileP)
             lDiff == Sub(curr.l, IF i > 1 THEN topDecileBins[i - 1].l
                                  ELSE topDecileL)
         IN  (IF Greater(pDiff, Zero) THEN <<Div(lDiff, pDiff)>> ELSE <<>>)
             \o RelativeIncomesFrom(topDecileBins, i + 1, topDecileP, topDecileL)

RelativeIncomes(distribution, topDecileIdx) ==
    RelativeIncomesFrom(SubSeq(distribution, topDecileIdx, Len(distribution)),
                        1, distribution[topDecileIdx].p,
                        distribution[topDecileIdx].l)

\* a mutant: the two factors swapped
RescalePointSwapped(d, surveyPct, ratio) ==
    [p |-> Mul(d.p, ratio), l |-> Mul(d.l, surveyPct), w |-> d.w,
     isPareto |-> FALSE, originalP |-> d.p, originalL |-> d.l]

\* step 8: every original point rescaled
RescalePoint(d, surveyPct, ratio) ==
    [p |-> Mul(d.p, surveyPct), l |-> Mul(d.l, ratio), w |-> d.w,
     isPareto |-> FALSE, originalP |-> d.p, originalL |-> d.l]

RescaleOriginal(distribution, surveyPct, ratio) ==
    [i \in 1..Len(distribution) |-> RescalePoint(distribution[i], surveyPct, ratio)]

\* a mutant: alpha = 1 is let through
AlphaRejectedBelowOne(alpha) ==
    (IF IsNumber(alpha) THEN Less(alpha, One) ELSE LessEqOne(alpha))
    \/ ~IsFiniteReal(alpha)

\* the test that rejects the computed alpha
AlphaRejected(alpha) == LessEqOne(alpha) \/ ~IsFiniteReal(alpha)

\* gap = nasMean - surveyMean and gapPercent = (gap / surveyMean) * 100
Gap(nasMean, surveyMean) == Sub(nasMean, surveyMean)
GapPercent(gap, surveyMean) == Mul(Div(gap, surveyMean), Hundred)

\* a mutant: the point after the first one at or above the cutoff
TopDecilePointNext(distribution, topDecileIdx) ==
    distribution[IF topDecileIdx < Len(distribution) THEN topDecileIdx + 1
                 ELSE topDecileIdx]

\* the point topDecileP and topDecileL are read from
TopDecilePoint(distribution, topDecileIdx) == distribution[topDecileIdx]

\* step 3: the share of the adjusted income the survey captures
NaRatio(nasMean, surveyMean) == Div(nasMean, surveyMean)

\* a mutant: the formula that holds for gapShare = 1/2 only
RatioForHalfGapShare(gapShare, naRatio) == Div(<<2, 1>>, Add(One, naRatio))

\* a mutant: the share of the whole ratio, not of its excess over 1
RatioOfWholeRatio(gapShare, naRatio) == Div(One, Add(One, Mul(gapShare, naRatio)))

Ratio(gapShare, naRatio) ==
    Div(One, Add(One, Mul(gapShare, Sub(naRatio, One))))

\* a mutant: the share within the whole income, not within the top decile
Ratio2OfWholeIncome(topDecileL, gapShare, naRatio) ==
    Div(One, Add(One, Mul(gapShare, Sub(naRatio, One))))

\* step 4: the same share within the top decile
Ratio2(topDecileL, gapShare, naRatio) ==
    LET topDecileShare == Sub(One, topDecileL)
    IN  Div(topDecileShare, Add(topDecileShare, Mul(gapShare, Sub(naRatio, One))))

\* step 5: the Pareto parameter
LogRatio(minY, maxY) == MathLog(Div(minY, maxY))
Alpha(ratio2, logRatio) == Add(Div(MathLog(Sub(One, ratio2)), logRatio), One)

\* steps 6 and 7: the survey's share of the top section and of the population
SurveyPctTop(minY, maxY, alpha) == Sub(One, MathPow(Div(minY, maxY), alpha))
\* a mutant: the whole top section counted as unobserved
SurveyPctOfWholeTop(topDecileP, surveyPctTop) ==
    Div(One, Add(One, Sub(One, topDecileP)))

SurveyPct(topDecileP, surveyPctTop) ==
    Div(One, Add(One, Mul(Sub(One, topDecileP), Sub(One, surveyPctTop))))

\* a mutant: the survey mean scaled down by the ratio
AdjustedMeanScaledDown(surveyMean, ratio) == Mul(surveyMean, ratio)

\* step 11
AdjustedMean(surveyMean, ratio) == Div(surveyMean, ratio)

\* steps 3 to 11, once minY and maxY are known
AdjustWithDensities(distribution, surveyMean, nasMean, gapShare, topDecileCutoff, gap, gapPercent, topDecileIdx, minY, maxY) ==
    LET topDecileP == TopDecilePoint(distribution, topDecileIdx).p
        topDecileL == TopDecilePoint(distribution, topDecileIdx).l
        naRatio == NaRatio(nasMean, surveyMean)
        ratio == Ratio(gapShare, naRatio)
        ratio2 == Ratio2(topDecileL, gapShare, naRatio)
        logRatio == LogRatio(minY, maxY)
        alpha == Alpha(ratio2, logRatio)
        surveyPctTop == SurveyPctTop(minY, maxY, alpha)
        surveyPct == SurveyPct(topDecileP, surveyPctTop)
        rescaledOriginal == RescaleOriginal(distribution, surveyPct, ratio)
        paretoTail == generateParetoTail(alpha, surveyPctTop, ratio, topDecileL,
                                         topDecileP, surveyPct)
        adjustedDist == combineDistributions(rescaledOriginal, paretoTail)
        adjustedMean == AdjustedMean(surveyMean, ratio)
    IN  IF logRatio = Zero THEN Rejected(ReasonIdenticalIncomes)
        ELSE IF AlphaRejected(alpha)
            THEN RejectedWithMeans(ReasonInvalidAlpha(alpha), surveyMean, nasMean,
                                   gap, gapPercent)
        ELSE [adjusted |-> TRUE, surveyMean |-> surveyMean, nasMean |-> nasMean,
              adjustedMean |-> adjustedMean, gap |-> gap,
              gapPercent |-> gapPercent, gapShare |-> gapShare,
              topDecileCutoff |-> topDecileCutoff, alpha |-> alpha,
              ratio |-> ratio, ratio2 |-> ratio2, surveyPct |-> surveyPct,
              surveyPctTop |-> surveyPctTop, topDecileP |-> topDecileP,
              topDecileL |-> topDecileL, minY |-> minY, maxY |-> maxY,
              originalDist |-> distribution, adjustedDist |-> adjustedDist,
              paretoTailBins |-> Len(paretoTail)]

\* the rejections of the top decile: fewer than two densities, or densities
\* that are not positive or not spread
NotEnoughBins(relativeIncomes) == Len(relativeIncomes) < 2

\* a mutant: equal densities pass
InvalidDensitiesStrict(minY, maxY) ==
    LessEq(minY, Zero) \/ LessEq(maxY, Zero) \/ Greater(minY, maxY)

InvalidDensities(minY, maxY) ==
    LessEq(minY, Zero) \/ LessEq(maxY, Zero) \/ GreaterEq(minY, maxY)

\* steps 1 and 2, once the four preconditions have passed
AdjustWithGap(distribution, surveyMean, nasMean, gapShare, topDecileCutoff) ==
    LET gap == Gap(nasMean, surveyMean)
        gapPercent == GapPercent(gap, surveyMean)
        topDecileIdx == FindIndex(distribution, topDecileCutoff)
        relativeIncomes == RelativeIncomes(distribution, topDecileIdx)
        minY == MathMin(relativeIncomes)
        maxY == MathMax(relativeIncomes)
    IN  IF topDecileIdx = 0 THEN Rejected(ReasonNoTopDecile)
        ELSE IF NotEnoughBins(relativeIncomes) THEN Rejected(ReasonNotEnoughBins)
        ELSE IF InvalidDensities(minY, maxY) THEN Rejected(ReasonInvalidTopDecile)
        ELSE AdjustWithDensities(distribution, surveyMean, nasMean, gapShare,
                                 topDecileCutoff, gap, gapPercent, topDecileIdx,
                                 minY, maxY)

\* the four preconditions, in the order of the code
DistributionInvalid(distribution) ==
    IsAbsent(distribution) \/ Len(distribution) < MinPoints

MeanInvalid(mean) == Falsy(mean) \/ LessEq(mean, Zero)

\* a mutant: the survey mean is validated before the distribution
calculateChandySeidelMeanFirst(distribution, surveyMean, nasMean, gapShare0, topDecileCutoff0) ==
    LET gapShare == IF IsUndefined(gapShare0) THEN DefaultGapShare ELSE gapShare0
        topDecileCutoff == IF IsUndefined(topDecileCutoff0)
                           THEN DefaultTopDecileCutoff ELSE topDecileCutoff0
    IN  IF MeanInvalid(surveyMean) THEN Rejected(ReasonInvalidSurveyMean)
        ELSE IF DistributionInvalid(distribution)
            THEN Rejected(ReasonInvalidDistribution)
        ELSE IF MeanInvalid(nasMean) THEN Rejected(ReasonNoNas)
        ELSE IF LessEq(nasMean, surveyMean) THEN NoGapResult(surveyMean, nasMean)
        ELSE AdjustWithGap(distribution, surveyMean, nasMean, gapShare,
                           topDecileCutoff)

calculateChandySeidel(distribution, surveyMean, nasMean, gapShare0, topDecileCutoff0) ==
    LET gapShare == IF IsUndefined(gapShare0) THEN DefaultGapShare ELSE gapShare0
        topDecileCutoff == IF IsUndefined(topDecileCutoff0)
                           THEN DefaultTopDecileCutoff ELSE topDecileCutoff0
    IN  IF DistributionInvalid(distribution)
            THEN Rejected(ReasonInvalidDistribution)
        ELSE IF MeanInvalid(surveyMean) THEN Rejected(ReasonInvalidSurveyMean)
        ELSE IF MeanInvalid(nasMean) THEN Rejected(ReasonNoNas)
        ELSE IF LessEq(nasMean, surveyMean) THEN NoGapResult(surveyMean, nasMean)
        ELSE AdjustWithGap(distribution, surveyMean, nasMean, gapShare,
                           topDecileCutoff)

(***************************************************************************)
(* Inputs                                                                  *)
(***************************************************************************)
MaxTail == 3

Pt(p, l, w) == [p |-> p, l |-> l, w |-> w]

\* the points below the top decile: p = k/10, l = (k/10)^2, k = 1..7
Middle == [k \in 1..7 |-> Pt(<<k, 10>>, Rat(k * k, 100), <<k, 1>>)]

\* what comes before them: nothing, the origin, a point within 0.001 of the
\* origin, a point at p = 0 with a positive income share
Heads ==
    { <<>>,
      <<Pt(Zero, Zero, Zero)>>,
      <<Pt(<<1, 2000>>, Zero, Zero)>>,
      <<Pt(Zero, <<1, 100>>, Zero)>> }

\* the points the end of the distribution is built from, in any order
TailPoints ==
    { Pt(<<17, 20>>, <<1, 2>>, Undefined),
      Pt(<<9, 10>>, <<1, 2>>, Undefined),
      Pt(<<9, 10>>, <<27, 50>>, Undefined),
      Pt(<<9, 10>>, <<1, 5>>, Undefined),
      Pt(<<19, 20>>, <<3, 5>>, Undefined),
      Pt(<<19, 20>>, <<1, 2>>, Undefined),
      Pt(One, One, Undefined),
      Pt(<<11, 10>>, One, Undefined) }

TailsUpTo(n) == UNION { [1..k -> TailPoints] : k \in 0..n }

\* the top decile of the scenario with densities 1.2 and 8.0
ScenarioTail ==
    << Pt(<<9, 10>>, <<27, 50>>, Undefined), Pt(<<19, 20>>, <<3, 5>>, Undefined),
       Pt(One, One, Undefined) >>
\* densities 2 and 8
DyadicTail ==
    << Pt(<<9, 10>>, <<1, 2>>, Undefined), Pt(<<19, 20>>, <<3, 5>>, Undefined),
       Pt(One, One, Undefined) >>
\* densities 8 and 8
FlatTail ==
    << Pt(<<9, 10>>, <<1, 5>>, Undefined), Pt(<<19, 20>>, <<3, 5>>, Undefined),
       Pt(One, One, Undefined) >>
\* the whole income below the top decile: topDecileL = 1, densities 2 and 4
SaturatedTail ==
    << Pt(<<9, 10>>, One, Undefined), Pt(<<19, 20>>, <<11, 10>>, Undefined),
       Pt(One, <<13, 10>>, Undefined) >>
\* a point of smaller p after the first point at or above the cutoff
UnsortedTail ==
    << Pt(<<9, 10>>, <<1, 2>>, Undefined), Pt(<<17, 20>>, <<1, 2>>, Undefined),
       Pt(<<19, 20>>, <<3, 5>>, Undefined), Pt(One, One, Undefined) >>
\* a last point beyond p = 1
OverlongTail ==
    << Pt(<<9, 10>>, <<1, 2>>, Undefined), Pt(<<19, 20>>, <<3, 5>>, Undefined),
       Pt(<<11, 10>>, One, Undefined) >>

\* a point without an income share: its l reads as undefined, NaN in arithmetic
UndefinedShareTail ==
    << Pt(<<9, 10>>, <<1, 2>>, Undefined), Pt(<<19, 20>>, NaN, Undefined),
       Pt(One, One, Undefined) >>

SampleDistributions ==
    { AbsentDistribution, <<>>, Middle, Middle \o UndefinedShareTail,
      <<Pt(Zero, Zero, Zero)>> \o Middle \o ScenarioTail,
      <<Pt(Zero, Zero, Zero)>> \o Middle \o DyadicTail,
      Middle \o DyadicTail,
      Middle \o FlatTail,
      Middle \o SaturatedTail,
      Middle \o UnsortedTail,
      Middle \o OverlongTail }

SurveyMeans == { Null, Undefined, NaN, Zero, <<-40, 1>>, <<40, 1>> }
NasMeans ==
    { Null, Zero, <<-60, 1>>, <<30, 1>>, <<40, 1>>, <<60, 1>>, <<80, 1>>, PosInf }
GapShares ==
    { Undefined, Null, <<-1, 1>>, Zero, <<1, 100>>, <<1, 2>>, One, <<2, 1>> }
Cutoffs == { Undefined, <<9, 10>>, <<19, 20>>, <<2, 1>> }

\* the means and parameters every distribution is tried with
UsualArguments == { <<<<40, 1>>, <<60, 1>>, <<1, 2>>, <<9, 10>>>> }

AllArguments == SurveyMeans \X NasMeans \X GapShares \X Cutoffs

(***************************************************************************)
(* The statistics module: interpolation                                    *)
(***************************************************************************)
\* the outcome of a call that throws: reading a property of undefined or
\* of null
TypeError == <<"TypeError">>
Threw(v) == v = TypeError

\* let i = 0; while (i < lorenz.length - 1 && lorenz[i + 1].p < p) i++;
\* 1-based: the first i at which the loop condition fails
ScanIndex(lorenz, p) ==
    CHOOSE i \in 1..(Len(lorenz) + 1) :
        /\ i >= Len(lorenz) \/ ~Less(lorenz[i + 1].p, p)
        /\ \A j \in 1..(i - 1) : j < Len(lorenz) /\ Less(lorenz[j + 1].p, p)

\* a mutant: the left value, no interpolation
LerpLeft(a, b, p) == a.l

\* l1 + t * (l2 - l1) with t = (p - p1) / (p2 - p1)
Lerp(a, b, p) ==
    LET t == Div(Sub(p, a.p), Sub(b.p, a.p))
    IN  Add(a.l, Mul(t, Sub(b.l, a.l)))

\* the scan and the interpolation, for an array
ScanAndLerp(lorenz, p) ==
    LET i == ScanIndex(lorenz, p)
    IN  IF i >= Len(lorenz)
        \* lorenz[lorenz.length - 1].l: of undefined when the array is empty
        THEN (IF Len(lorenz) = 0 THEN TypeError ELSE lorenz[Len(lorenz)].l)
        ELSE Lerp(lorenz[i], lorenz[i + 1], p)

\* interpolateLorenz of the statistics module: no check of the curve
interpolateLorenz(lorenz, p) ==
    IF LessEq(p, Zero) THEN Zero
    ELSE IF GreaterEq(p, One) THEN One
    \* lorenz.length of null
    ELSE IF IsAbsent(lorenz) THEN TypeError
    ELSE ScanAndLerp(lorenz, p)

\* LorenzChart.interpolate: null for a curve that is absent or too short
interpolate(lorenz, p) ==
    IF IsAbsent(lorenz) \/ Len(lorenz) < 2 THEN Null
    ELSE IF LessEq(p, Zero) THEN Zero
    ELSE IF GreaterEq(p, One) THEN One
    ELSE ScanAndLerp(lorenz, p)

(***************************************************************************)
(* The export module: the interpolate of exportLorenzCSV                   *)
(***************************************************************************)
\* let i = 0; while (i < lorenz.length - 1 && lorenz[i + 1].p < p) i++;
\* 1-based: the loop from position i on
RECURSIVE ExportScanFrom(_, _, _)
ExportScanFrom(lorenz, p, i) ==
    IF i < Len(lorenz) /\ Less(lorenz[i + 1].p, p)
    THEN ExportScanFrom(lorenz, p, i + 1)
    ELSE i

\* lorenz[i].l + t * (lorenz[i + 1].l - lorenz[i].l)
ExportLerp(a, b, p) ==
    Add(a.l, Mul(Div(Sub(p, a.p), Sub(b.p, a.p)), Sub(b.l, a.l)))

exportLorenzInterpolate(lorenz, p) ==
    IF IsAbsent(lorenz) \/ Len(lorenz) < 2 THEN Null
    ELSE IF LessEq(p, Zero) THEN Zero
    ELSE IF GreaterEq(p, One) THEN One
    ELSE LET i == ExportScanFrom(lorenz, p, 1)
         IN  IF i >= Len(lorenz) THEN lorenz[Len(lorenz)].l
             ELSE ExportLerp(lorenz[i], lorenz[i + 1], p)

(***************************************************************************)
(* The statistics module: calculateGini                                    *)
(***************************************************************************)
GiniOriginTolerance == <<1, 1000>>

\* a mutant: the copy is not sorted
GiniDataUnsorted(lorenz) ==
    IF \/ Greater(lorenz[1].p, GiniOriginTolerance)
       \/ Greater(lorenz[1].l, GiniOriginTolerance)
    THEN <<[p |-> Zero, l |-> Zero]>> \o lorenz
    ELSE lorenz

\* the copy of the curve, the origin unshifted when the first point is not
\* at it, then sorted by p
GiniData(lorenz) ==
    SortByP(IF \/ Greater(lorenz[1].p, GiniOriginTolerance)
               \/ Greater(lorenz[1].l, GiniOriginTolerance)
            THEN <<[p |-> Zero, l |-> Zero]>> \o lorenz
            ELSE lorenz)

\* width * avgHeight of the step that ends at data[i]
Trapezoid(data, i) ==
    Mul(Sub(data[i].p, data[i - 1].p),
        Div(Add(data[i].l, data[i - 1].l), <<2, 1>>))

\* areaUnderLorenz after the steps lo..hi, from 0; the sum is exact, so the
\* order of the additions does not matter and the range is halved
RECURSIVE TrapezoidSum(_, _, _)
TrapezoidSum(data, lo, hi) ==
    IF lo > hi THEN Zero
    ELSE IF lo = hi THEN Trapezoid(data, lo)
    ELSE LET mid == (lo + hi) \div 2
         IN  Add(TrapezoidSum(data, lo, mid), TrapezoidSum(data, mid + 1, hi))

AreaUnderLorenz(data) == TrapezoidSum(data, 2, Len(data))

\* a mutant: no clamp
ClampNone(g) == g

\* Math.max(0, Math.min(1, gini)); NaN stays NaN
Clamp(g) ==
    IF IsNaN(g) THEN NaN
    ELSE IF Less(g, Zero) THEN Zero
    ELSE IF Greater(g, One) THEN One
    ELSE g

calculateGini(lorenz) ==
    IF IsAbsent(lorenz) \/ Len(lorenz) < 2 THEN Null
    ELSE Clamp(Sub(One, Mul(<<2, 1>>, AreaUnderLorenz(GiniData(lorenz)))))

(***************************************************************************)
(* The statistics module: income shares and statistics                     *)
(***************************************************************************)
DefaultNumGroups == 10

\* the share of group i (1-based) of numGroups, on the sorted copy
IncomeShare(data, i, numGroups) ==
    LET groupSize == Div(One, <<numGroups, 1>>)
        pLow == Mul(<<i - 1, 1>>, groupSize)
        pHigh == Mul(<<i, 1>>, groupSize)
    IN  [group |-> i, pLow |-> pLow, pHigh |-> pHigh,
         share |-> Sub(interpolateLorenz(data, pHigh),
                       interpolateLorenz(data, pLow))]

calculateIncomeShares(lorenz, numGroups0) ==
    LET numGroups == IF numGroups0 = Undefined THEN DefaultNumGroups
                     ELSE numGroups0[1]
    IN  IF IsAbsent(lorenz) \/ Len(lorenz) < 2 THEN Null
        ELSE [i \in 1..numGroups |-> IncomeShare(SortByP(lorenz), i, numGroups)]

\* shares.slice(0, n).reduce((sum, q) => sum + q.share, 0)
RECURSIVE SumShares(_, _)
SumShares(shares, n) ==
    IF n = 0 THEN Zero ELSE Add(SumShares(shares, n - 1), shares[n].share)

\* (top10 && bottom40 && bottom40 > 0) ? top10 / bottom40 : null
Palma(top10, bottom40) ==
    IF ~Falsy(top10) /\ ~Falsy(bottom40) /\ Greater(bottom40, Zero)
    THEN Div(top10, bottom40)
    ELSE Null

calculateStatistics(lorenz) ==
    IF IsAbsent(lorenz) \/ Len(lorenz) < 2 THEN Null
    ELSE LET deciles == calculateIncomeShares(lorenz, <<10, 1>>)
             quintiles == calculateIncomeShares(lorenz, <<5, 1>>)
             top10 == deciles[10].share
             bottom40 == SumShares(deciles, 4)
         IN  [gini |-> calculateGini(lorenz),
              bottom10 |-> deciles[1].share,
              bottom50 |-> SumShares(quintiles, 5),
              top10 |-> top10,
              top1 |-> Sub(interpolateLorenz(lorenz, One),
                           interpolateLorenz(lorenz, <<99, 100>>)),
              palma |-> Palma(top10, bottom40),
              deciles |-> deciles,
              quintiles |-> quintiles]

(***************************************************************************)
(* The statistics module: calculateAreaBetweenCurves                       *)
(***************************************************************************)
NumPoints == 100

\* the four interpolations of step i
AreaSamples(lorenz1, lorenz2, i) ==
    LET p == Div(<<i, 1>>, <<NumPoints, 1>>)
        pPrev == Div(<<i - 1, 1>>, <<NumPoints, 1>>)
    IN  <<interpolateLorenz(lorenz1, p), interpolateLorenz(lorenz1, pPrev),
          interpolateLorenz(lorenz2, p), interpolateLorenz(lorenz2, pPrev)>>

\* width * avgDiff of step i
AreaStep(lorenz1, lorenz2, i) ==
    LET s == AreaSamples(lorenz1, lorenz2, i)
        width == Div(One, <<NumPoints, 1>>)
        avgDiff == Div(Add(Sub(s[1], s[3]), Sub(s[2], s[4])), <<2, 1>>)
    IN  Mul(width, avgDiff)

RECURSIVE AreaSum(_, _, _, _)
AreaSum(lorenz1, lorenz2, lo, hi) ==
    IF lo = hi THEN AreaStep(lorenz1, lorenz2, lo)
    ELSE LET mid == (lo + hi) \div 2
         IN  Add(AreaSum(lorenz1, lorenz2, lo, mid),
                 AreaSum(lorenz1, lorenz2, mid + 1, hi))

\* an interpolation that throws ends the call
calculateAreaBetweenCurves(lorenz1, lorenz2) ==
    IF \E i \in 1..NumPoints : \E k \in 1..4 :
            Threw(AreaSamples(lorenz1, lorenz2, i)[k])
    THEN TypeError
    ELSE AreaSum(lorenz1, lorenz2, 1, NumPoints)

(***************************************************************************)
(* Curves                                                                  *)
(***************************************************************************)
MaxCurveLen == 3

Cp(p, l) == [p |-> p, l |-> l]

CurvePoints ==
    { Cp(Zero, Zero), Cp(Zero, <<1, 5>>), Cp(<<1, 4>>, <<1, 10>>),
      Cp(<<1, 2>>, <<1, 5>>), Cp(<<9, 10>>, One), Cp(One, One),
      Cp(One, <<4, 5>>) }

CurvesUpTo(n) ==
    UNION { [1..k -> CurvePoints] : k \in 0..n } \cup { AbsentDistribution }

Queries == { <<-1, 2>>, Zero, <<1, 4>>, <<1, 2>>, <<3, 4>>, One, <<3, 2>>, NaN }

NumGroups == { Undefined, <<5, 1>>, <<10, 1>> }

EqualityLine == <<Cp(Zero, Zero), Cp(One, One)>>

\* the curves calculateAreaBetweenCurves is called with
AreaCurves ==
    { AbsentDistribution, <<>>, <<Cp(<<1, 2>>, <<1, 5>>)>>, EqualityLine,
      <<Cp(Zero, Zero), Cp(<<1, 2>>, <<1, 5>>), Cp(One, One)>> }

(***************************************************************************)
(* A call of calculateChandySeidel                                         *)
(***************************************************************************)
VARIABLES distribution, surveyMean, nasMean, gapShare, topDecileCutoff,
          pc, result

\* a call of a function of the statistics module: the curve and the outcome
VARIABLES lorenz, out

\* the arrays and point objects of the caller and of a call: the heap before
\* the call, the heap now, the caller's array and what the call returned
VARIABLES heap0, heap, input, ret

callVars == <<distribution, surveyMean, nasMean, gapShare, topDecileCutoff, pc, result>>
lorenzVars == <<lorenz, out>>
\* the data loader: countryDataCache, the calls of loadCountryData made so
\* far, the objects successful loads have resolved to since the last
\* clearCache, and the numbers of data objects parsed and of fetches issued
VARIABLES cache, calls, settled, objects, fetches

heapVars == <<heap0, heap, input, ret>>
loaderVars == <<cache, calls, settled, objects, fetches>>

\* the application: its state object, the page elements it writes, the
\* calls of loadDistribution whose fetch is pending, the call started last
\* with its outcome, and the export call made by the handler that ran last
VARIABLES state, elements, loads, lastLoad, exported

\* calculateChandySeidel and calculateGini, pure functions, tabulated over
\* the arguments the application calls them with; the table is computed
\* once and never changes
VARIABLES adjustments

appVars == <<state, elements, loads, lastLoad, exported, adjustments>>
vars == <<callVars, lorenzVars, heapVars, loaderVars, appVars>>

NoResult == [pending |-> TRUE]

\* no call of the statistics module is under way
NoLorenzCall == lorenz = <<>> /\ out = NoResult

EmptyHeap == [objs |-> <<>>, arrs |-> <<>>]

\* the page is not open
NoPage ==
    /\ state = <<>> /\ elements = <<>> /\ loads = <<>> /\ lastLoad = <<>>
    /\ exported = <<>> /\ adjustments = <<>>

\* no caller's array is followed
NoHeapCall == heap0 = EmptyHeap /\ heap = EmptyHeap /\ input = 0 /\ ret = NoResult

Countries == { "IND", "BRA" }
NoData == 0

\* the loader module as loaded: an empty cache, no call made
LoaderLoaded ==
    /\ cache = [c \in Countries |-> NoData]
    /\ calls = <<>>
    /\ settled = [c \in Countries |-> {}]
    /\ objects = 0
    /\ fetches = 0

Arguments(d, a) ==
    /\ distribution = d
    /\ surveyMean = a[1]
    /\ nasMean = a[2]
    /\ gapShare = a[3]
    /\ topDecileCutoff = a[4]

\* every distribution Heads, Middle and TailPoints make, with the usual
\* arguments; the sample distributions with every combination of arguments
Init ==
    /\ \/ \E h \in Heads, t \in TailsUpTo(MaxTail), a \in UsualArguments :
            Arguments(h \o Middle \o t, a)
       \/ \E d \in SampleDistributions, a \in AllArguments : Arguments(d, a)
    /\ pc = "ready"
    /\ result = NoResult
    /\ NoLorenzCall
    /\ NoHeapCall
    /\ LoaderLoaded
    /\ NoPage

\* the caller invokes the function; the arguments are not changed
Call ==
    /\ pc = "ready"
    /\ result' = calculateChandySeidel(distribution, surveyMean, nasMean,
                                       gapShare, topDecileCutoff)
    /\ pc' = "returned"
    /\ UNCHANGED <<distribution, surveyMean, nasMean, gapShare, topDecileCutoff>>
    /\ UNCHANGED <<lorenzVars, heapVars, loaderVars, appVars>>

Next == Call

Spec == Init /\ [][Next]_vars

Returned == pc = "returned"
Accepted == Returned /\ result.adjusted
IsRejected == Returned /\ ~result.adjusted

(***************************************************************************)
(* Calls of the statistics module                                          *)
(***************************************************************************)
\* no call of calculateChandySeidel is under way
NoAdjustCall ==
    /\ Arguments(<<>>, <<Null, Null, Null, Null>>)
    /\ pc = "idle"
    /\ result = NoResult

LorenzInit ==
    /\ lorenz \in CurvesUpTo(MaxCurveLen)
    /\ out = NoResult
    /\ NoAdjustCall
    /\ NoHeapCall
    /\ LoaderLoaded
    /\ NoPage

CallGini ==
    /\ out = NoResult
    /\ out' = [fn |-> "calculateGini", value |-> calculateGini(lorenz)]
    /\ UNCHANGED <<lorenz, callVars, heapVars, loaderVars, appVars>>

CallInterpolateLorenz ==
    /\ out = NoResult
    /\ \E p \in Queries :
        out' = [fn |-> "interpolateLorenz", p |-> p,
                value |-> interpolateLorenz(lorenz, p)]
    /\ UNCHANGED <<lorenz, callVars, heapVars, loaderVars, appVars>>

CallInterpolate ==
    /\ out = NoResult
    /\ \E p \in Queries :
        out' = [fn |-> "interpolate", p |-> p, value |-> interpolate(lorenz, p)]
    /\ UNCHANGED <<lorenz, callVars, heapVars, loaderVars, appVars>>

CallExportInterpolate ==
    /\ out = NoResult
    /\ \E p \in Queries :
        out' = [fn |-> "exportLorenzCSV.interpolate", p |-> p,
                value |-> exportLorenzInterpolate(lorenz, p)]
    /\ UNCHANGED <<lorenz, callVars, heapVars, loaderVars, appVars>>

CallIncomeShares ==
    /\ out = NoResult
    /\ \E n \in NumGroups :
        out' = [fn |-> "calculateIncomeShares", numGroups |-> n,
                value |-> calculateIncomeShares(lorenz, n)]
    /\ UNCHANGED <<lorenz, callVars, heapVars, loaderVars, appVars>>

CallStatistics ==
    /\ out = NoResult
    /\ out' = [fn |-> "calculateStatistics", value |-> calculateStatistics(lorenz)]
    /\ UNCHANGED <<lorenz, callVars, heapVars, loaderVars, appVars>>

\* the two curves are drawn from AreaCurves
CallAreaBetweenCurves ==
    /\ out = NoResult
    /\ lorenz \in AreaCurves
    /\ \E lorenz2 \in AreaCurves :
        out' = [fn |-> "calculateAreaBetweenCurves", lorenz2 |-> lorenz2,
                value |-> calculateAreaBetweenCurves(lorenz, lorenz2)]
    /\ UNCHANGED <<lorenz, callVars, heapVars, loaderVars, appVars>>

LorenzNext ==
    \/ CallGini
    \/ CallInterpolateLorenz
    \/ CallInterpolate
    \/ CallExportInterpolate
    \/ CallIncomeShares
    \/ CallStatistics
    \/ CallAreaBetweenCurves

LorenzSpec == LorenzInit /\ [][LorenzNext]_vars

Called(fn) == out # NoResult /\ out.fn = fn
HasCurve == ~IsAbsent(lorenz) /\ Len(lorenz) >= 2

(***************************************************************************)
(* Arrays and point objects: which of them a call creates and writes       *)
(***************************************************************************)
\* a heap is a list of point objects and a list of arrays of references to
\* them; a reference is a position in the list, 0 is null

\* the value of array a: its points, in order
Deref(h, a) ==
    IF a = 0 THEN AbsentDistribution
    ELSE [k \in 1..Len(h.arrs[a]) |-> h.objs[h.arrs[a][k]]]

References(from, n) == [k \in 1..n |-> from + k]

\* const tail = []; tail.push({...}): a new array of new objects
NewArrayOf(h, records) ==
    [heap |-> [objs |-> h.objs \o records,
               arrs |-> Append(h.arrs, References(Len(h.objs), Len(records)))],
     id |-> Len(h.arrs) + 1]

\* a mutant: the callback writes into the points of array a and returns them
MapInPlace(h, a, records) ==
    [heap |-> [h EXCEPT !.objs =
                  [o \in 1..Len(h.objs) |->
                      IF \E k \in 1..Len(h.arrs[a]) : h.arrs[a][k] = o
                      THEN records[CHOOSE k \in 1..Len(h.arrs[a]) : h.arrs[a][k] = o]
                      ELSE h.objs[o]]],
     id |-> a]

\* a.map(d => ({...})): a new array of new objects
MapNew(h, a, records) == NewArrayOf(h, records)

\* [...a, ...b]: a new array of the same objects
Concat(h, a, b) ==
    [heap |-> [h EXCEPT !.arrs = Append(@, h.arrs[a] \o h.arrs[b])],
     id |-> Len(h.arrs) + 1]

\* [...a]
Spread(h, a) ==
    [heap |-> [h EXCEPT !.arrs = Append(@, h.arrs[a])], id |-> Len(h.arrs) + 1]

\* a.sort((x, y) => x.p - y.p): array a reordered in place
SortArray(h, a) ==
    LET keyed == [k \in 1..Len(h.arrs[a]) |->
                    [p |-> h.objs[h.arrs[a][k]].p, ref |-> h.arrs[a][k]]]
        sorted == SortByP(keyed)
    IN  [h EXCEPT !.arrs[a] = [k \in 1..Len(sorted) |-> sorted[k].ref]]

\* a.unshift({...}): a new object put in front of array a, in place
Unshift(h, a, record) ==
    [objs |-> Append(h.objs, record),
     arrs |-> [h.arrs EXCEPT ![a] = <<Len(h.objs) + 1>> \o @]]

\* last.p = 1; last.l = 1: the object the last place of array a refers to
WriteLast(h, a) ==
    LET last == h.arrs[a][Len(h.arrs[a])]
    IN  [h EXCEPT !.objs[last] = [@ EXCEPT !.p = One, !.l = One]]

MaxHeapTail == 2

\* the arrays a caller holds
HeapInputs ==
    { h \o Middle \o t : h \in Heads, t \in TailsUpTo(MaxHeapTail) }
        \cup SampleDistributions \cup CurvesUpTo(MaxCurveLen)

\* the caller's heap: the points of d and the array of them; null has none
HeapOf(d) ==
    IF IsAbsent(d) THEN EmptyHeap
    ELSE [objs |-> d, arrs |-> <<References(0, Len(d))>>]

HeapInit ==
    /\ \E d \in HeapInputs :
        /\ heap0 = HeapOf(d)
        /\ heap = HeapOf(d)
        /\ input = IF IsAbsent(d) THEN 0 ELSE 1
    /\ ret = NoResult
    /\ NoAdjustCall
    /\ NoLorenzCall
    /\ LoaderLoaded
    /\ NoPage

\* the value a call returns and the array it returns, if any
Returns(fn, value) == [fn |-> fn, value |-> value]
ReturnsArrays(fn, value, original, adjusted) ==
    [fn |-> fn, value |-> value, originalDist |-> original, adjustedDist |-> adjusted]

\* calculateChandySeidel on the caller's array: the values as
\* calculateChandySeidel computes them, the arrays and objects as its
\* statements create them, one after the other
HeapCallChandySeidel ==
    /\ ret = NoResult
    /\ \E args \in UsualArguments, d \in {Deref(heap, input)} :
       \E r \in {calculateChandySeidel(d, args[1], args[2], args[3], args[4])} :
         IF ~r.adjusted
         THEN heap' = heap /\ ret' = Returns("calculateChandySeidel", r)
         ELSE
           \* const rescaled = distribution.map(...)
           \E rescaled \in {MapNew(heap, input, RescaleOriginal(d, r.surveyPct, r.ratio))} :
           \* const paretoTail = generateParetoTail(...)
           \E tail \in {NewArrayOf(rescaled.heap,
                          generateParetoTail(r.alpha, r.surveyPctTop, r.ratio,
                                             r.topDecileL, r.topDecileP, r.surveyPct))} :
           \* combineDistributions: const combined = [...rescaled, ...paretoTail]
           \E combined \in {Concat(tail.heap, rescaled.id, tail.id)} :
           \* combined.sort(...)
           \E sorted \in {SortArray(combined.heap, combined.id)} :
           \* if (combined[0].p > 0.001 || combined[0].l > 0.001) combined.unshift(...)
           \E anchored \in {IF NeedsOrigin(Deref(sorted, combined.id))
                            THEN Unshift(sorted, combined.id,
                                         [p |-> Zero, l |-> Zero, isPareto |-> FALSE])
                            ELSE sorted} :
             \* last.p = 1; last.l = 1; return
             /\ heap' = WriteLast(anchored, combined.id)
             /\ ret' = ReturnsArrays("calculateChandySeidel", r, input, combined.id)
    /\ UNCHANGED <<heap0, input, callVars, lorenzVars, loaderVars, appVars>>

\* calculateGini on the caller's array
HeapCallGini ==
    /\ ret = NoResult
    /\ IF input = 0 \/ Len(heap.arrs[input]) < 2
       THEN heap' = heap /\ ret' = Returns("calculateGini", Null)
       ELSE
         \* const data = [...lorenz]
         \E data \in {Spread(heap, input)}, first \in {heap.objs[heap.arrs[input][1]]} :
         \* if (data[0].p > 0.001 || data[0].l > 0.001) data.unshift(...)
         \E anchored \in {IF \/ Greater(first.p, GiniOriginTolerance)
                             \/ Greater(first.l, GiniOriginTolerance)
                          THEN Unshift(data.heap, data.id, [p |-> Zero, l |-> Zero])
                          ELSE data.heap} :
         \* data.sort(...)
         \E sorted \in {SortArray(anchored, data.id)} :
         \E points \in {Deref(sorted, data.id)} :
           /\ heap' = sorted
           /\ ret' = Returns("calculateGini",
                             Clamp(Sub(One, Mul(<<2, 1>>, AreaUnderLorenz(points)))))
    /\ UNCHANGED <<heap0, input, callVars, lorenzVars, loaderVars, appVars>>

\* calculateIncomeShares on the caller's array
HeapCallIncomeShares ==
    /\ ret = NoResult
    /\ IF input = 0 \/ Len(heap.arrs[input]) < 2
       THEN heap' = heap /\ ret' = Returns("calculateIncomeShares", Null)
       ELSE
         \* const data = [...lorenz].sort(...)
         \E data \in {Spread(heap, input)} :
         \E sorted \in {SortArray(data.heap, data.id)} :
         \E points \in {Deref(sorted, data.id)} :
           /\ heap' = sorted
           /\ ret' = Returns("calculateIncomeShares",
                             [i \in 1..DefaultNumGroups |->
                                 IncomeShare(points, i, DefaultNumGroups)])
    /\ UNCHANGED <<heap0, input, callVars, lorenzVars, loaderVars, appVars>>

HeapNext == HeapCallChandySeidel \/ HeapCallGini \/ HeapCallIncomeShares

HeapSpec == HeapInit /\ [][HeapNext]_vars

HeapReturned(fn) == ret # NoResult /\ ret.fn = fn

(***************************************************************************)
(* The data loader: loadCountryData and clearCache                         *)
(***************************************************************************)
MaxCalls == 3

\* the country codes loadCountryData is called with; "" is a missing code
CountryCodes == Countries \cup { "" }

LoaderInit ==
    /\ LoaderLoaded
    /\ NoPage
    /\ NoAdjustCall
    /\ NoLorenzCall
    /\ NoHeapCall

\* countryDataCache.set(countryCode, data)
CacheSet(c, data) == [cache EXCEPT ![c] = data]

\* a successful resolution to the object data
Settle(c, data) == [settled EXCEPT ![c] = @ \cup { data }]

\* the synchronous part of loadCountryData(c): a missing code throws, a
\* cached country returns the cached object, any other issues the fetch
StartLoad ==
    /\ Len(calls) < MaxCalls
    /\ \E c \in CountryCodes :
        IF c = ""
        THEN /\ calls' = Append(calls, [country |-> c, known |-> {}, fetched |-> FALSE,
                                        stage |-> "rejected", value |-> NoData,
                                        cleared |-> FALSE])
             /\ UNCHANGED <<settled, fetches>>
        ELSE IF cache[c] # NoData
        THEN /\ calls' = Append(calls, [country |-> c, known |-> settled[c],
                                        fetched |-> FALSE, stage |-> "resolved",
                                        value |-> cache[c], cleared |-> FALSE])
             /\ settled' = Settle(c, cache[c])
             /\ UNCHANGED fetches
        ELSE /\ calls' = Append(calls, [country |-> c, known |-> settled[c],
                                        fetched |-> TRUE, stage |-> "fetching",
                                        value |-> NoData, cleared |-> FALSE])
             /\ fetches' = fetches + 1
             /\ UNCHANGED settled
    /\ UNCHANGED <<cache, objects, callVars, lorenzVars, heapVars, appVars>>

\* the fetch of call k resolves with response.ok
ResponseOk ==
    /\ \E k \in 1..Len(calls) :
        /\ calls[k].stage = "fetching"
        /\ calls' = [calls EXCEPT ![k].stage = "parsing"]
    /\ UNCHANGED <<cache, settled, objects, fetches, callVars, lorenzVars, heapVars, appVars>>

\* the fetch of call k rejects, or resolves with a status that is not ok
ResponseFailed ==
    /\ \E k \in 1..Len(calls) :
        /\ calls[k].stage = "fetching"
        /\ calls' = [calls EXCEPT ![k].stage = "rejected"]
    /\ UNCHANGED <<cache, settled, objects, fetches, callVars, lorenzVars, heapVars, appVars>>

\* response.json() of call k resolves with a new object, which is cached
\* and returned
Parsed ==
    /\ \E k \in 1..Len(calls) :
        /\ calls[k].stage = "parsing"
        /\ objects' = objects + 1
        /\ cache' = CacheSet(calls[k].country, objects + 1)
        /\ settled' = Settle(calls[k].country, objects + 1)
        /\ calls' = [calls EXCEPT ![k].stage = "resolved", ![k].value = objects + 1]
    /\ UNCHANGED <<fetches, callVars, lorenzVars, heapVars, appVars>>

\* response.json() of call k rejects
ParseFailed ==
    /\ \E k \in 1..Len(calls) :
        /\ calls[k].stage = "parsing"
        /\ calls' = [calls EXCEPT ![k].stage = "rejected"]
    /\ UNCHANGED <<cache, settled, objects, fetches, callVars, lorenzVars, heapVars, appVars>>

\* the call is between its fetch and its return
InFlight(call) == call.stage \in { "fetching", "parsing" }

\* clearCache(): countryDataCache.clear(); the calls in flight go on, and
\* each remembers that the cache was cleared under it
ClearCache ==
    /\ cache' = [c \in Countries |-> NoData]
    /\ settled' = [c \in Countries |-> {}]
    /\ calls' = [k \in 1..Len(calls) |->
                    IF InFlight(calls[k]) THEN [calls[k] EXCEPT !.cleared = TRUE]
                    ELSE calls[k]]
    /\ UNCHANGED <<objects, fetches, callVars, lorenzVars, heapVars, appVars>>

LoaderNext ==
    \/ StartLoad
    \/ ResponseOk
    \/ ResponseFailed
    \/ Parsed
    \/ ParseFailed
    \/ ClearCache

LoaderSpec == LoaderInit /\ [][LoaderNext]_vars

(***************************************************************************)
(* The application: selection, loading, recalculation and export           *)
(***************************************************************************)
MaxLoads == 2

\* state.selectedCountry: null
NoCountry == "null"
DefaultYear == 2019

\* a field that holds null instead of an object
NullObject == [null |-> TRUE]
NoBadge == <<>>
NoExport == [fn |-> "none"]

\* data/countries.json: the years listed for each country
CountriesJson == [c \in Countries |-> IF c = "IND" THEN { 2018, 2019 } ELSE { 2019 }]

Bins(points) ==
    [i \in 1..Len(points) |->
        [p |-> points[i].p, l |-> points[i].l, w |-> points[i].w, q |-> i, new |-> 0]]

\* data/distributions/<c>.json: the years of the file.  The file of IND
\* lacks 2018, a year countries.json lists; the file of BRA has no
\* survey_mean
DistributionJson(c) ==
    IF c = "IND"
    THEN [y \in { 2019 } |->
            [bins |-> Bins(<<Pt(Zero, Zero, Zero)>> \o Middle \o ScenarioTail),
             survey_mean |-> <<40, 1>>]]
    ELSE [y \in { 2019 } |->
            [bins |-> Bins(Middle \o DyadicTail), survey_mean |-> Undefined]]

NoNas == [hfce |-> Null, gdp |-> Null, surveyMean |-> Null]

\* data/nas_data.json, loaded when the page opened: no gdp for BRA
NasJson(c) ==
    IF c = "IND"
    THEN [y \in { 2018, 2019 } |-> [hfce |-> <<60, 1>>, gdp |-> <<30, 1>>]]
    ELSE [y \in { 2019 } |-> [hfce |-> <<60, 1>>, gdp |-> Null]]

\* what response.json() gives for the file of c
FileObject(c) == IF c = "IND" THEN 1 ELSE 2

RECURSIVE MeanFromBinsFrom(_, _, _, _)
MeanFromBinsFrom(dist, i, totalWelfare, totalPop) ==
    IF i > Len(dist)
    THEN (IF Greater(totalPop, Zero) THEN Div(totalWelfare, totalPop) ELSE Null)
    ELSE LET popShare == Sub(dist[i].p, dist[i - 1].p)
             welfare == dist[i].w
         IN  IF Greater(popShare, Zero) /\ ~Falsy(welfare)
             THEN MeanFromBinsFrom(dist, i + 1,
                                   Add(totalWelfare, Mul(welfare, popShare)),
                                   Add(totalPop, popShare))
             ELSE MeanFromBinsFrom(dist, i + 1, totalWelfare, totalPop)

calculateMeanFromBins(dist) == MeanFromBinsFrom(dist, 2, Zero, Zero)

\* getDistribution(c, year) on the parsed file, for a year the file has
getDistribution(c, year) ==
    LET yearData == DistributionJson(c)[year]
        dist ==
            [i \in 1..Len(yearData.bins) |->
                [p |-> yearData.bins[i].p, l |-> yearData.bins[i].l,
                 w |-> yearData.bins[i].w, quantile |-> yearData.bins[i].q,
                 isNew |-> yearData.bins[i].new = 1]]
    IN  [countryCode |-> c, year |-> year, distribution |-> dist,
         surveyMean |-> IF Falsy(yearData.survey_mean)
                        THEN calculateMeanFromBins(dist)
                        ELSE yearData.survey_mean]

getNasForCountryYear(c, year) ==
    IF year \in DOMAIN NasJson(c) THEN NasJson(c)[year] ELSE NoNas

NoChartData ==
    [surveyLorenz |-> AbsentDistribution, adjustedLorenz |-> NullObject,
     paretoPoints |-> NullObject]

\* the state object of the module
InitialState ==
    [selectedCountry |-> NoCountry, selectedYear |-> DefaultYear,
     gapShare |-> <<1, 2>>, nasSource |-> "hfce",
     currentDistribution |-> NullObject, currentNasData |-> NullObject,
     adjustmentResult |-> NullObject, surveyGini |-> Null, adjustedGini |-> Null,
     chartData |-> NoChartData]

\* the elements after loadInitialData: the load button enabled, the
\* overlay hidden, no year button (autoSelectFirstCountry finds no option,
\* the dropdown being filled after an await)
InitialElements ==
    [selectionBadge |-> NoBadge, loadBtn |-> [disabled |-> FALSE],
     exportDistBtn |-> [disabled |-> TRUE], exportSummaryBtn |-> [disabled |-> TRUE],
     exportLorenzBtn |-> [disabled |-> TRUE], loadingOverlay |-> "none",
     yearButtons |-> {}]

NoLoad == [country |-> NoCountry, year |-> 0, stage |-> "none"]

\* clearResults(), on the state and on the elements
clearResultsState(s) ==
    [s EXCEPT !.currentDistribution = NullObject, !.currentNasData = NullObject,
              !.adjustmentResult = NullObject, !.surveyGini = Null,
              !.adjustedGini = Null, !.chartData = NoChartData]

ExportButtons(e, disabled) ==
    [e EXCEPT !.exportDistBtn.disabled = disabled,
              !.exportSummaryBtn.disabled = disabled,
              !.exportLorenzBtn.disabled = disabled]

showLoading(e, show) == [e EXCEPT !.loadingOverlay = IF show THEN "flex" ELSE "none"]

\* The arrays calculateChandySeidel returns are held by reference: which
\* array, of the result computed from which data and parameters, and its
\* length
ArrayOf(name, s, length) ==
    [array |-> name,
     of |-> <<s.currentDistribution.countryCode, s.currentDistribution.year,
              s.nasSource, s.gapShare>>,
     length |-> length]

\* calculateGini of an adjusted curve: null for fewer than 2 points; the
\* shares of the synthesized tail are symbolic, and so is the coefficient
GiniOfAdjusted(adjustedDist) ==
    IF adjustedDist.length < 2 THEN Null ELSE Term("gini", adjustedDist, Zero)

NasMeanOf(s) ==
    IF s.currentNasData = NullObject THEN Null
    ELSE IF s.nasSource = "hfce" THEN s.currentNasData.hfce
    ELSE s.currentNasData.gdp

\* the positions of the slider
SliderValues == { 0, 50 }

\* the arguments recalculateAdjustment passes in state s
ArgumentsOf(s) ==
    << s.currentDistribution.distribution, s.currentDistribution.surveyMean,
       NasMeanOf(s), s.gapShare >>

\* the arguments the files and the controls can give rise to
FileArguments(c, year) ==
    { << getDistribution(c, year).distribution, getDistribution(c, year).surveyMean,
         nas, Rat(value, 100) >> :
        nas \in { getNasForCountryYear(c, year).hfce,
                  getNasForCountryYear(c, year).gdp },
        value \in SliderValues }

PossibleArguments ==
    UNION { UNION { FileArguments(c, year) : year \in DOMAIN DistributionJson(c) } :
            c \in Countries }

IsParetoPoint(d) == d.isPareto

\* a result with its arrays replaced by their lengths and, for
\* adjustedDist, the number of its isPareto points
Measured(r) ==
    IF r.adjusted
    THEN [r EXCEPT !.originalDist = Len(r.originalDist),
                   !.adjustedDist =
                        [length |-> Len(r.adjustedDist),
                         pareto |-> Len(SelectSeq(r.adjustedDist, IsParetoPoint))]]
    ELSE r

SurveyLorenzOf(dist) ==
    [i \in 1..Len(dist) |-> Cp(dist[i].p, dist[i].l)]

\* for each of them, calculateChandySeidel with the cutoff 0.9 and
\* calculateGini of the survey curve
Adjustments ==
    { [arguments |-> a,
       result |-> Measured(calculateChandySeidel(a[1], a[2], a[3], a[4], <<9, 10>>)),
       surveyGini |-> calculateGini(SurveyLorenzOf(a[1]))] :
        a \in PossibleArguments }

\* what recalculateAdjustment computes in state s, read from the table
Computed(s) == CHOOSE t \in adjustments : t.arguments = ArgumentsOf(s)
AdjustmentOf(s) == Computed(s).result

\* the result r with its arrays held by reference
Held(s, r) ==
    IF r.adjusted
    THEN [r EXCEPT !.originalDist = ArrayOf("originalDist", s, r.originalDist),
                   !.adjustedDist = ArrayOf("adjustedDist", s, r.adjustedDist.length)]
    ELSE r

\* a mutant: the adjusted Gini, curve and Pareto points are written for an
\* adjusted result only, and left alone otherwise
RecalculatedKeepingAdjusted(s, r) ==
    [s EXCEPT
        !.adjustmentResult = Held(s, r),
        !.surveyGini = Computed(s).surveyGini,
        !.adjustedGini = IF r.adjusted THEN GiniOfAdjusted(Held(s, r).adjustedDist)
                         ELSE @,
        !.chartData =
            [surveyLorenz |-> SurveyLorenzOf(s.currentDistribution.distribution),
             adjustedLorenz |-> IF r.adjusted THEN Held(s, r).adjustedDist
                                ELSE @.adjustedLorenz,
             paretoPoints |-> IF r.adjusted
                              THEN ArrayOf("paretoPoints", s, r.adjustedDist.pareto)
                              ELSE @.paretoPoints]]

\* the assignments of recalculateAdjustment once the result is computed
Recalculated(s, r) ==
    [s EXCEPT
        !.adjustmentResult = Held(s, r),
        !.surveyGini = Computed(s).surveyGini,
        !.adjustedGini = IF r.adjusted THEN GiniOfAdjusted(Held(s, r).adjustedDist)
                         ELSE Null,
        !.chartData =
            [surveyLorenz |-> SurveyLorenzOf(s.currentDistribution.distribution),
             adjustedLorenz |-> IF r.adjusted THEN Held(s, r).adjustedDist
                                ELSE NullObject,
             paretoPoints |-> IF r.adjusted
                              THEN ArrayOf("paretoPoints", s, r.adjustedDist.pareto)
                              ELSE NullObject]]

recalculateAdjustment(s) ==
    IF s.currentDistribution = NullObject THEN s
    ELSE Recalculated(s, AdjustmentOf(s))

AppInit ==
    /\ state = InitialState
    /\ elements = InitialElements
    /\ loads = <<>>
    /\ lastLoad = NoLoad
    /\ exported = NoExport
    /\ adjustments = Adjustments
    /\ LoaderLoaded
    /\ NoAdjustCall
    /\ NoLorenzCall
    /\ NoHeapCall

\* loadDistribution after its await, the data of (c, year) having arrived:
\* the badge is written from the selection of that moment
Loaded(s, e, c, year) ==
    LET s1 == [s EXCEPT !.currentDistribution = getDistribution(c, year),
                        !.currentNasData = getNasForCountryYear(c, year)]
        e1 == [e EXCEPT !.selectionBadge = <<s.selectedCountry, s.selectedYear>>]
    IN  <<recalculateAdjustment(s1), showLoading(ExportButtons(e1, FALSE), FALSE)>>

\* the catch of loadDistribution
LoadFailed(s, e) == <<s, showLoading(e, FALSE)>>

\* loadDistribution once the file of c is there: getDistribution throws
\* for a year the file lacks
Settled(s, e, c, year) ==
    IF year \in DOMAIN DistributionJson(c) THEN Loaded(s, e, c, year)
    ELSE LoadFailed(s, e)

Remove(seq, k) == SubSeq(seq, 1, k - 1) \o SubSeq(seq, k + 1, Len(seq))

\* the call started last takes the outcome when it is the one that settles
Outcome(k, stage) ==
    IF k = Len(loads) /\ lastLoad.stage = "pending"
    THEN [lastLoad EXCEPT !.stage = stage] ELSE lastLoad

StageOf(c, year) ==
    IF year \in DOMAIN DistributionJson(c) THEN "resolved" ELSE "rejected"

\* a click on the load button.  With the file of the country in the cache
\* no fetch is awaited and the call settles before any other handler runs;
\* otherwise the call waits for its fetch
loadDistribution ==
    /\ ~elements.loadBtn.disabled
    /\ exported' = NoExport
    /\ IF state.selectedCountry = NoCountry
       THEN UNCHANGED <<state, elements, loads, lastLoad>>
       ELSE \E c \in { state.selectedCountry }, year \in { state.selectedYear } :
            \E s \in { clearResultsState(state) },
               e \in { ExportButtons(showLoading(elements, TRUE), TRUE) } :
                IF cache[c] # NoData
                THEN /\ \E se \in { Settled(s, e, c, year) } :
                            state' = se[1] /\ elements' = se[2]
                     /\ lastLoad' = [country |-> c, year |-> year,
                                     stage |-> StageOf(c, year)]
                     /\ UNCHANGED loads
                ELSE /\ Len(loads) < MaxLoads
                     /\ state' = s
                     /\ elements' = e
                     /\ loads' = Append(loads, [country |-> c, year |-> year])
                     /\ lastLoad' = [country |-> c, year |-> year, stage |-> "pending"]
    /\ UNCHANGED <<adjustments, callVars, lorenzVars, heapVars,
                 loaderVars>>

\* the fetch of call k resolves and its response parses: the file is put
\* in the cache and loadDistribution goes on
FetchResolvedOf(k) ==
    /\ cache' = CacheSet(loads[k].country, FileObject(loads[k].country))
    /\ \E se \in { Settled(state, elements, loads[k].country, loads[k].year) } :
            state' = se[1] /\ elements' = se[2]
    /\ lastLoad' = Outcome(k, StageOf(loads[k].country, loads[k].year))
    /\ loads' = Remove(loads, k)
    /\ exported' = NoExport
    /\ UNCHANGED <<calls, settled, objects, fetches, adjustments, callVars, lorenzVars,
                   heapVars>>

FetchResolved == \E k \in 1..Len(loads) : FetchResolvedOf(k)

\* the fetch of call k rejects, or its response is not ok or does not parse
FetchFailedOf(k) ==
    /\ \E se \in { LoadFailed(state, elements) } :
            state' = se[1] /\ elements' = se[2]
    /\ lastLoad' = Outcome(k, "rejected")
    /\ loads' = Remove(loads, k)
    /\ exported' = NoExport
    /\ UNCHANGED <<adjustments, callVars, lorenzVars, heapVars, loaderVars>>

FetchFailed == \E k \in 1..Len(loads) : FetchFailedOf(k)

Latest(years) == CHOOSE y \in years : \A z \in years : z <= y

\* populateYearButtons(years), on state.selectedYear
populateYearButtons(s, years) ==
    IF years = {} \/ s.selectedYear \in years THEN s
    ELSE [s EXCEPT !.selectedYear = Latest(years)]

\* the dropdown changes to code; "" is the placeholder
onCountryChange ==
    /\ \E code \in Countries \cup { "" } :
        IF code = ""
        THEN /\ state' = [state EXCEPT !.selectedCountry = NoCountry]
             /\ elements' = [elements EXCEPT !.loadBtn.disabled = TRUE,
                                             !.yearButtons = {}]
        ELSE /\ state' = populateYearButtons(
                            [state EXCEPT !.selectedCountry = code],
                            CountriesJson[code])
             /\ elements' = [elements EXCEPT !.loadBtn.disabled = FALSE,
                                             !.yearButtons = CountriesJson[code]]
    /\ exported' = NoExport
    /\ UNCHANGED <<loads, lastLoad, adjustments, callVars, lorenzVars, heapVars,
                 loaderVars>>

onYearChange ==
    /\ \E year \in elements.yearButtons :
        state' = [state EXCEPT !.selectedYear = year]
    /\ exported' = NoExport
    /\ UNCHANGED <<elements, loads, lastLoad, adjustments, callVars, lorenzVars, heapVars,
                 loaderVars>>

onGapShareChange ==
    /\ \E value \in SliderValues :
        state' = recalculateAdjustment([state EXCEPT !.gapShare = Rat(value, 100)])
    /\ exported' = NoExport
    /\ UNCHANGED <<elements, loads, lastLoad, adjustments, callVars, lorenzVars, heapVars,
                 loaderVars>>

onNasSourceChange ==
    /\ \E value \in { "hfce", "gdp" } :
        state' = recalculateAdjustment([state EXCEPT !.nasSource = value])
    /\ exported' = NoExport
    /\ UNCHANGED <<elements, loads, lastLoad, adjustments, callVars, lorenzVars, heapVars,
                 loaderVars>>

\* the label an export function is called with
Export == [fn |-> "export", country |-> state.selectedCountry, year |-> state.selectedYear]

\* the click handlers of the three export buttons
ExportDistribution ==
    /\ ~elements.exportDistBtn.disabled
    /\ exported' = IF state.adjustmentResult # NullObject
                      /\ state.selectedCountry # NoCountry
                   THEN Export ELSE NoExport
    /\ UNCHANGED <<state, elements, loads, lastLoad, adjustments, callVars, lorenzVars, heapVars,
                 loaderVars>>

ExportSummary ==
    /\ ~elements.exportSummaryBtn.disabled
    /\ exported' = IF state.adjustmentResult # NullObject
                      /\ state.selectedCountry # NoCountry
                   THEN Export ELSE NoExport
    /\ UNCHANGED <<state, elements, loads, lastLoad, adjustments, callVars, lorenzVars, heapVars,
                 loaderVars>>

ExportLorenz ==
    /\ ~elements.exportLorenzBtn.disabled
    /\ exported' = IF state.chartData.surveyLorenz # AbsentDistribution
                      /\ state.selectedCountry # NoCountry
                   THEN Export ELSE NoExport
    /\ UNCHANGED <<state, elements, loads, lastLoad, adjustments, callVars, lorenzVars, heapVars,
                 loaderVars>>

AppNext ==
    \/ loadDistribution
    \/ FetchResolved
    \/ FetchFailed
    \/ onCountryChange
    \/ onYearChange
    \/ onGapShareChange
    \/ onNasSourceChange
    \/ ExportDistribution
    \/ ExportSummary
    \/ ExportLorenz

AppSpec == AppInit /\ [][AppNext]_vars

(***************************************************************************)
(* The call seen from its arguments                                        *)
(***************************************************************************)
\* a mean that is null, undefined or NaN
Missing(m) == IsNull(m) \/ IsUndefined(m) \/ IsNaN(m)

TooShort == IsAbsent(distribution) \/ Len(distribution) < MinPoints
SurveyMeanBad == Missing(surveyMean) \/ LessEq(surveyMean, Zero)
NasMeanBad == Missing(nasMean) \/ LessEq(nasMean, Zero)
NoGap == LessEq(nasMean, surveyMean)

MeansValid == ~TooShort /\ ~SurveyMeanBad /\ ~NasMeanBad
PreconditionsPass == MeansValid /\ ~NoGap

GapShareUsed == IF IsUndefined(gapShare) THEN DefaultGapShare ELSE gapShare
CutoffUsed ==
    IF IsUndefined(topDecileCutoff) THEN DefaultTopDecileCutoff ELSE topDecileCutoff

\* the points at or above the cutoff, and the first of them in input order
AtOrAboveCutoff == { i \in 1..Len(distribution) : GreaterEq(distribution[i].p, CutoffUsed) }
HasTopDecile == AtOrAboveCutoff # {}
FirstAtOrAbove == CHOOSE i \in AtOrAboveCutoff : \A j \in AtOrAboveCutoff : i <= j

\* the consecutive pairs (i, i + 1) from the top-decile point on with dp > 0,
\* and the density dl/dp of such a pair
DensityPairs ==
    { i \in FirstAtOrAbove..(Len(distribution) - 1) :
        Greater(Sub(distribution[i + 1].p, distribution[i].p), Zero) }
Density(i) ==
    Div(Sub(distribution[i + 1].l, distribution[i].l),
        Sub(distribution[i + 1].p, distribution[i].p))
DensitiesValid ==
    /\ Cardinality(DensityPairs) >= 2
    /\ \A i \in DensityPairs : Greater(Density(i), Zero)
    /\ \E i, j \in DensityPairs : Less(Density(i), Density(j))

\* the call gets as far as computing alpha, and the alpha it computes
ReachesAlpha == PreconditionsPass /\ HasTopDecile /\ DensitiesValid
MinDensity == CHOOSE y \in { Density(i) : i \in DensityPairs } :
                \A i \in DensityPairs : LessEq(y, Density(i))
MaxDensity == CHOOSE y \in { Density(i) : i \in DensityPairs } :
                \A i \in DensityPairs : LessEq(Density(i), y)
ComputedAlpha ==
    Alpha(Ratio2(distribution[FirstAtOrAbove].l, GapShareUsed,
                 NaRatio(nasMean, surveyMean)),
          LogRatio(MinDensity, MaxDensity))

HasMeansAndGap ==
    {"surveyMean", "nasMean", "gap", "gapPercent"} \subseteq DOMAIN result

(***************************************************************************)
(* C1.  The preconditions are checked in a fixed order and the reason      *)
(* returned is that of the first one that fails: too short or absent       *)
(* distribution, then invalid survey mean, then invalid NAS mean, then     *)
(* NAS mean not above the survey mean.                                     *)
(***************************************************************************)
C1_FirstFailingPrecondition ==
    Returned =>
        /\ TooShort => result.reason = <<"Invalid distribution data">>
        /\ ~TooShort /\ SurveyMeanBad => result.reason = <<"Invalid survey mean">>
        /\ ~TooShort /\ ~SurveyMeanBad /\ NasMeanBad
            => result.reason = <<"No NAS data available">>
        /\ MeansValid /\ NoGap
            => result.reason = <<"NAS <= Survey mean (no adjustment needed)">>
        /\ (TooShort \/ SurveyMeanBad \/ NasMeanBad \/ NoGap) => ~result.adjusted

\* a distribution that is too short and a survey mean that is invalid
C1_Witness ==
    /\ Returned /\ TooShort /\ ~IsAbsent(distribution) /\ SurveyMeanBad /\ NasMeanBad
    /\ result.reason = <<"Invalid distribution data">>

(***************************************************************************)
(* C2.  A result is Accepted only with a finite alpha > 1.  When the       *)
(* computed alpha is <= 1 or not finite the result is Rejected, carries    *)
(* surveyMean, nasMean, gap and gapPercent, and its reason embeds          *)
(* alpha.toFixed(3): alpha rounded to 3 decimals when alpha is finite, and *)
(* "Infinity", "-Infinity" or "NaN" when it is not.                        *)
(***************************************************************************)
AlphaInadmissible == LessEqOne(ComputedAlpha) \/ ~IsFiniteReal(ComputedAlpha)

CarriesMeansAndGap ==
    /\ HasMeansAndGap
    /\ result.surveyMean = surveyMean
    /\ result.nasMean = nasMean
    /\ result.gap = Sub(nasMean, surveyMean)
    /\ result.gapPercent = Mul(Hundred, Div(Sub(nasMean, surveyMean), surveyMean))

IsAlphaReason(reason) ==
    /\ Len(reason) = 3
    /\ reason[1] = "Invalid Pareto alpha (" /\ reason[3] = " <= 1)"

\* the text is v with 3 decimals: within 1/2000 of v
ThreeDecimalsOf(text, v) ==
    /\ text.text = "digits" /\ text.places = 3
    /\ IF IsTerm(v) THEN "of" \in DOMAIN text /\ text.of = v
       ELSE /\ "whole" \in DOMAIN text /\ text.frac \in 0..999
            /\ LET shown == Rat((IF text.neg THEN -1 ELSE 1)
                                    * (text.whole * 1000 + text.frac), 1000)
                   diff == Sub(shown, v)
               IN  /\ LessEq(diff, <<1, 2000>>)
                   /\ LessEq(Neg(diff), <<1, 2000>>)
                   /\ text.neg = Less(v, Zero)

NotFiniteTextOf(text, v) ==
    \/ IsNaN(v) /\ text.text = "NaN"
    \/ v = PosInf /\ text.text = "Infinity"
    \/ v = NegInf /\ text.text = "-Infinity"

AcceptedAlphaAdmissible ==
    Accepted => IsFiniteReal(result.alpha) /\ ~LessEqOne(result.alpha)

C2_AlphaAdmissibility ==
    /\ AcceptedAlphaAdmissible
    /\ Returned /\ ReachesAlpha /\ AlphaInadmissible
        => /\ ~result.adjusted
           /\ IsAlphaReason(result.reason)
           /\ IF IsFiniteReal(ComputedAlpha)
              THEN ThreeDecimalsOf(result.reason[2], ComputedAlpha)
              ELSE NotFiniteTextOf(result.reason[2], ComputedAlpha)
           /\ CarriesMeansAndGap

\* the claim as stated: the reason shows 3 decimals also when alpha is not finite
C2_AsStated ==
    /\ AcceptedAlphaAdmissible
    /\ Returned /\ ReachesAlpha /\ AlphaInadmissible
        => /\ ~result.adjusted
           /\ IsAlphaReason(result.reason)
           /\ ThreeDecimalsOf(result.reason[2], ComputedAlpha)
           /\ CarriesMeansAndGap

\* alpha = 1/2 is rejected with the text 0.500
C2_Witness ==
    /\ Returned /\ ReachesAlpha /\ ComputedAlpha = <<1, 2>>
    /\ result.reason[2] =
         [text |-> "digits", neg |-> FALSE, whole |-> 0, frac |-> 500, places |-> 3]

(***************************************************************************)
(* C3.  With nasMean <= surveyMean the result is always Rejected; it has   *)
(* gap = 0 and gapPercent = 0, whatever gapShare and topDecileCutoff are,  *)
(* when the distribution has at least 10 points and both means are valid.  *)
(***************************************************************************)
C3_NoGap ==
    Returned /\ NoGap =>
        /\ ~result.adjusted
        /\ MeansValid =>
            /\ HasMeansAndGap
            /\ result.gap = Zero /\ result.gapPercent = Zero

\* the claim as stated: gap = 0 and gapPercent = 0 whatever the distribution
C3_AsStated ==
    Returned /\ NoGap =>
        /\ ~result.adjusted
        /\ HasMeansAndGap
        /\ result.gap = Zero /\ result.gapPercent = Zero

\* a survey mean above the NAS mean, with parameters other than the defaults
C3_Witness ==
    /\ Returned /\ MeansValid /\ Less(nasMean, surveyMean)
    /\ gapShare = One /\ topDecileCutoff = <<19, 20>>
    /\ result.gap = Zero

(***************************************************************************)
(* C4.  Every call returns a value that is Accepted, or Rejected with one  *)
(* of the reasons of the documented set, for every distribution and every  *)
(* mean and parameter, null, 0 and negative numbers included.              *)
(***************************************************************************)
DocumentedReasons ==
    { <<"Invalid distribution data">>,
      <<"Invalid survey mean">>,
      <<"No NAS data available">>,
      <<"NAS <= Survey mean (no adjustment needed)">>,
      <<"Could not identify top decile">>,
      <<"Not enough bins in top decile">>,
      <<"Invalid income distribution in top decile">>,
      <<"Cannot calculate alpha (identical incomes in top decile)">> }

C4_FailuresAreData ==
    Returned =>
        /\ result.adjusted \in BOOLEAN
        /\ ~result.adjusted =>
            \/ Len(result.reason) = 1 /\ result.reason \in DocumentedReasons
            \/ IsAlphaReason(result.reason)

\* a null survey mean, a negative NAS mean and a negative gap share on a
\* distribution of 10 points are answered with a reason
C4_Witness ==
    /\ Returned /\ ~TooShort /\ IsNull(surveyMean) /\ Less(nasMean, Zero)
    /\ Less(gapShare, Zero)
    /\ result.reason \in DocumentedReasons

(***************************************************************************)
(* C5.  For every Accepted result the first element of adjustedDist is the *)
(* point (0, 0) and the last element is exactly (1, 1).                    *)
(***************************************************************************)
FirstAdjusted == result.adjustedDist[1]
LastAdjusted == result.adjustedDist[Len(result.adjustedDist)]

C5_AsStated ==
    Accepted =>
        /\ FirstAdjusted.p = Zero /\ FirstAdjusted.l = Zero
        /\ LastAdjusted.p = One /\ LastAdjusted.l = One

(***************************************************************************)
(* C6.  For every Accepted result computed from a distribution whose       *)
(* points all have p <= 1, every original point (p, l) has its rescaled    *)
(* point (p * surveyPct, l * ratio) in adjustedDist, tagged isPareto =     *)
(* false and carrying originalP and originalL.                             *)
(***************************************************************************)
IsRescaledOf(a, d) ==
    /\ ~a.isPareto /\ "originalP" \in DOMAIN a
    /\ a.originalP = d.p /\ a.originalL = d.l
    /\ a.p = Mul(d.p, result.surveyPct)
    /\ a.l = Mul(d.l, result.ratio)

AllRescaledPresent ==
    \A i \in 1..Len(distribution) :
        \E k \in 1..Len(result.adjustedDist) :
            IsRescaledOf(result.adjustedDist[k], distribution[i])

AllWithinOne == \A i \in 1..Len(distribution) : LessEq(distribution[i].p, One)

C6_RescalePreserved == Accepted /\ AllWithinOne => AllRescaledPresent

\* the claim as stated: for every Accepted result
C6_AsStated == Accepted => AllRescaledPresent

\* an unsorted distribution within [0, 1] and a tail of several points
C6_Witness ==
    /\ Accepted /\ AllWithinOne /\ result.paretoTailBins > 1
    /\ \E i \in 1..(Len(distribution) - 1) :
            Less(distribution[i + 1].p, distribution[i].p)
    /\ LastAdjusted.isPareto

(***************************************************************************)
(* C7.  topDecileP and topDecileL are the coordinates of the first point   *)
(* in input order whose p >= topDecileCutoff, also when later points have  *)
(* a smaller p; when no point has p >= topDecileCutoff the result is       *)
(* Rejected with the reason 'Could not identify top decile'.               *)
(***************************************************************************)
C7_TopDecileLocalization ==
    /\ Accepted =>
        /\ HasTopDecile
        /\ result.topDecileP = distribution[FirstAtOrAbove].p
        /\ result.topDecileL = distribution[FirstAtOrAbove].l
    /\ Returned /\ PreconditionsPass =>
        (~HasTopDecile <=>
            ~result.adjusted /\ result.reason = <<"Could not identify top decile">>)

\* a later point has a smaller p than the first point at or above the cutoff
C7_Witness ==
    /\ Accepted
    /\ \E j \in (FirstAtOrAbove + 1)..Len(distribution) :
            Less(distribution[j].p, distribution[FirstAtOrAbove].p)
    /\ result.topDecileP = distribution[FirstAtOrAbove].p

(***************************************************************************)
(* C8.  The densities dl/dp are taken over the consecutive pairs of the    *)
(* points from the top-decile point to the end, pairs with dp <= 0         *)
(* skipped.  Fewer than 2 densities: 'Not enough bins in top decile'.      *)
(* Otherwise min <= 0 or min >= max, equal densities included: 'Invalid    *)
(* income distribution in top decile'.  Otherwise neither reason.          *)
(***************************************************************************)
\* a density that is NaN makes the minimum and the maximum NaN, and every
\* comparison of the check false
SomeDensityNaN == \E i \in DensityPairs : IsNaN(Density(i))
SomeDensityNotPositive == \E i \in DensityPairs : LessEq(Density(i), Zero)
AllDensitiesEqual == \A i, j \in DensityPairs : Density(i) = Density(j)

C8_TailDensities ==
    Returned /\ PreconditionsPass /\ HasTopDecile =>
        IF Cardinality(DensityPairs) < 2
        THEN ~result.adjusted /\ result.reason = <<"Not enough bins in top decile">>
        ELSE IF ~SomeDensityNaN /\ (SomeDensityNotPositive \/ AllDensitiesEqual)
        THEN /\ ~result.adjusted
             /\ result.reason = <<"Invalid income distribution in top decile">>
        ELSE \/ result.adjusted
             \/ result.reason \notin { <<"Not enough bins in top decile">>,
                                       <<"Invalid income distribution in top decile">> }

\* a flat top decile: two bins of the same positive density
C8_Witness ==
    /\ Returned /\ PreconditionsPass /\ HasTopDecile
    /\ Cardinality(DensityPairs) = 2 /\ AllDensitiesEqual /\ ~SomeDensityNotPositive
    /\ result.reason = <<"Invalid income distribution in top decile">>

(***************************************************************************)
(* C9.  Every Rejected result issued after the distribution and both means *)
(* passed validation carries surveyMean, nasMean, gap and gapPercent.      *)
(***************************************************************************)
C9_AsStated ==
    Returned /\ MeansValid /\ ~result.adjusted => HasMeansAndGap

(***************************************************************************)
(* C10.  For every Accepted result ratio = 1 / (1 + gapShare * (nasMean /  *)
(* surveyMean - 1)) and adjustedMean = surveyMean / ratio.  With           *)
(* surveyMean = 40, nasMean = 60, gapShare = 0.5, cutoff 0.9 and top-      *)
(* decile densities from 1.2 to 8.0 (topDecileL < 1, as on a Lorenz        *)
(* curve) the result is Accepted with ratio = 0.8 and adjustedMean = 50.   *)
(***************************************************************************)
Scenario ==
    /\ surveyMean = <<40, 1>> /\ nasMean = <<60, 1>>
    /\ GapShareUsed = <<1, 2>> /\ CutoffUsed = <<9, 10>>
    /\ ReachesAlpha
    /\ MinDensity = <<6, 5>> /\ MaxDensity = <<8, 1>>
    /\ Less(distribution[FirstAtOrAbove].l, One)

ReadmeRatio(nas, survey) == Div(<<2, 1>>, Add(One, Div(nas, survey)))

SynthesizedTail ==
    generateParetoTail(result.alpha, result.surveyPctTop, result.ratio,
                       result.topDecileL, result.topDecileP, result.surveyPct)

ParetoTagged ==
    { k \in 1..Len(result.adjustedDist) : result.adjustedDist[k].isPareto }

\* the point the merge adds: neither a rescaled original nor a tail point
OriginPrepended ==
    /\ ~FirstAdjusted.isPareto
    /\ "originalP" \notin DOMAIN FirstAdjusted

\* every rescaled original lies above the threshold of the origin test
AllRescaledAboveThreshold ==
    \A i \in 1..Len(distribution) :
        Greater(Mul(distribution[i].p, result.surveyPct), OriginThreshold)

C12_BinCounts ==
    Accepted =>
        /\ result.paretoTailBins = Len(SynthesizedTail)
        /\ result.paretoTailBins = Cardinality(ParetoTagged)
        /\ Len(result.adjustedDist) =
             Len(distribution) + result.paretoTailBins
               + (IF OriginPrepended THEN 1 ELSE 0)
        /\ OriginPrepended <=> AllRescaledAboveThreshold

\* the origin prepended, a tail of several points, and a forced last point
\* that is a rescaled original
C12_Witness ==
    /\ Accepted /\ OriginPrepended /\ result.paretoTailBins > 1
    /\ Len(result.adjustedDist) = Len(distribution) + result.paretoTailBins + 1
    /\ ~LastAdjusted.isPareto /\ LastAdjusted.p = One

(***************************************************************************)
(* C13.  Inputs are never modified: after a call of calculateChandySeidel, *)
(* calculateGini or calculateIncomeShares every array and every point      *)
(* object that existed before the call, the caller's array among them, is  *)
(* as it was; result.originalDist is the caller's array itself, and        *)
(* adjustedDist is a new array of new point objects.                       *)
(***************************************************************************)
OldArrays == 1..Len(heap0.arrs)
OldObjects == 1..Len(heap0.objs)

NothingOldWritten ==
    /\ Len(heap.arrs) >= Len(heap0.arrs) /\ Len(heap.objs) >= Len(heap0.objs)
    /\ \A a \in OldArrays : \A k \in 1..Len(heap0.arrs[a]) :
            Len(heap.arrs[a]) = Len(heap0.arrs[a]) /\ heap.arrs[a][k] = heap0.arrs[a][k]
    /\ \A o \in OldObjects : heap.objs[o] = heap0.objs[o]

AdjustedOnHeap == HeapReturned("calculateChandySeidel") /\ ret.value.adjusted

C13_InputsNotModified ==
    /\ ret # NoResult => NothingOldWritten
    /\ AdjustedOnHeap =>
        /\ ret.originalDist = input
        /\ ret.adjustedDist \notin OldArrays
        /\ \A k \in 1..Len(heap.arrs[ret.adjustedDist]) :
                heap.arrs[ret.adjustedDist][k] \notin OldObjects
        /\ \A k \in 1..Len(heap.arrs[ret.adjustedDist]) :
                Deref(heap, ret.adjustedDist)[k] = ret.value.adjustedDist[k]

\* an array adjusted: the merge prepended the origin and overwrote the last
\* point, which is a rescaled original
C13_Witness ==
    /\ AdjustedOnHeap
    /\ Len(heap.arrs[ret.adjustedDist]) =
            Len(heap0.arrs[input]) + ret.value.paretoTailBins + 1
    /\ LET last == Deref(heap, ret.adjustedDist)[Len(heap.arrs[ret.adjustedDist])]
       IN  ~last.isPareto /\ last.p = One /\ last.originalP # One

FirstOffOrigin ==
    Greater(lorenz[1].p, <<1, 1000>>) \/ Greater(lorenz[1].l, <<1, 1000>>)

SortedWithOrigin ==
    SortByP(IF FirstOffOrigin THEN <<Cp(Zero, Zero)>> \o lorenz ELSE lorenz)

\* twice the area: the sum of (p_i - p_(i-1)) * (l_i + l_(i-1)) up to point n
RECURSIVE TwiceAreaUpTo(_, _)
TwiceAreaUpTo(data, n) ==
    IF n < 2 THEN Zero
    ELSE Add(TwiceAreaUpTo(data, n - 1),
             Mul(Sub(data[n].p, data[n - 1].p), Add(data[n].l, data[n - 1].l)))

OneMinusTwiceArea ==
    Sub(One, TwiceAreaUpTo(SortedWithOrigin, Len(SortedWithOrigin)))

C15_GiniFormula ==
    Called("calculateGini") /\ HasCurve =>
        /\ out.value = (IF Less(OneMinusTwiceArea, Zero) THEN Zero
                        ELSE IF Less(One, OneMinusTwiceArea) THEN One
                        ELSE OneMinusTwiceArea)
        /\ lorenz = EqualityLine => out.value = Zero

\* an unsorted curve that starts off the origin, with a Gini inside (0, 1)
C15_Witness ==
    /\ Called("calculateGini") /\ HasCurve /\ FirstOffOrigin
    /\ \E i \in 1..(Len(lorenz) - 1) : Less(lorenz[i + 1].p, lorenz[i].p)
    /\ Less(Zero, out.value) /\ Less(out.value, One)

(***************************************************************************)
(* C16.  For every curve with at least 2 points that is sorted strictly    *)
(* ascending by p, and every point (p, l) of it with 0 < p < 1, or with    *)
(* p <= 0 and l = 0, or with p >= 1 and l = 1, the interpolation at p      *)
(* returns l.                                                              *)
(***************************************************************************)
Interpolated == Called("interpolateLorenz") \/ Called("interpolate")

StrictlyAscending ==
    \A i \in 1..(Len(lorenz) - 1) : Less(lorenz[i].p, lorenz[i + 1].p)

PointsAt(p) == { k \in 1..Len(lorenz) : lorenz[k].p = p }

OnTheScale(pt) ==
    \/ Less(Zero, pt.p) /\ Less(pt.p, One)
    \/ LessEq(pt.p, Zero) /\ pt.l = Zero
    \/ GreaterEq(pt.p, One) /\ pt.l = One

C16_RoundTrip ==
    Interpolated /\ HasCurve /\ StrictlyAscending =>
        \A k \in PointsAt(out.p) :
            OnTheScale(lorenz[k]) => out.value = lorenz[k].l

\* the claim as stated: every curve with at least 2 points, every point
C16_AsStated ==
    Interpolated /\ HasCurve =>
        \A k \in PointsAt(out.p) : out.value = lorenz[k].l

\* an inner point of a sorted curve, reached by the scan and interpolated
C16_Witness ==
    /\ Called("interpolateLorenz") /\ HasCurve /\ StrictlyAscending
    /\ \E k \in PointsAt(out.p) :
        /\ k > 1 /\ Less(Zero, out.p) /\ Less(out.p, One)
        /\ lorenz[k].l # lorenz[k - 1].l
        /\ out.value = lorenz[k].l

(***************************************************************************)
(* C17.  The interpolation of the statistics module returns null, and      *)
(* neither throws nor returns a number, whenever it is asked for 0 < p < 1 *)
(* on a curve with fewer than 2 points, also in the calls                  *)
(* calculateAreaBetweenCurves makes.                                       *)
(***************************************************************************)
Inside(p) == Less(Zero, p) /\ Less(p, One)
TooShortCurve(c) == IsAbsent(c) \/ Len(c) < 2

C17_AsStated ==
    /\ Called("interpolateLorenz") /\ ~HasCurve /\ Inside(out.p) =>
        out.value = Null
    /\ Called("calculateAreaBetweenCurves") /\ TooShortCurve(lorenz) =>
        /\ ~Threw(out.value)
        /\ \A i \in 1..(NumPoints - 1) :
            AreaSamples(lorenz, out.lorenz2, i)[1] = Null

(***************************************************************************)
(* C18.  For every curve with at least 2 points the bottom50 returned by   *)
(* calculateStatistics is the income share of the bottom 50% of the        *)
(* population: interpolate(curve, 0.5) - interpolate(curve, 0).            *)
(***************************************************************************)
C18_AsStated ==
    Called("calculateStatistics") /\ HasCurve =>
        out.value.bottom50 =
            Sub(interpolate(SortByP(lorenz), <<1, 2>>),
                interpolate(SortByP(lorenz), Zero))

(***************************************************************************)
(* C19.  For every curve with at least 2 points calculateStatistics        *)
(* returns palma = top10 / bottom40, bottom40 the sum of the first four    *)
(* decile shares, whenever bottom40 > 0; palma is null only when bottom40  *)
(* is not positive.                                                        *)
(***************************************************************************)
Bottom40 ==
    Add(Add(Add(out.value.deciles[1].share, out.value.deciles[2].share),
            out.value.deciles[3].share),
        out.value.deciles[4].share)

C19_AsStated ==
    Called("calculateStatistics") /\ HasCurve =>
        /\ Greater(Bottom40, Zero) =>
            out.value.palma = Div(out.value.top10, Bottom40)
        /\ out.value.palma = Null => ~Greater(Bottom40, Zero)

(***************************************************************************)
(* C20.  Once loadCountryData(c) has resolved successfully, every later    *)
(* call loadCountryData(c) made before clearCache() resolves to the same   *)
(* data object and issues no fetch; a failed load caches nothing, so a     *)
(* call made when no load of c has succeeded since the last clearCache     *)
(* fetches.                                                                *)
(***************************************************************************)
C20_AsStated ==
    \A k \in 1..Len(calls) :
        /\ calls[k].known # {} =>
            /\ calls[k].stage = "resolved"
            /\ ~calls[k].fetched
            /\ \A data \in calls[k].known : calls[k].value = data
        /\ calls[k].known = {} /\ calls[k].country # "" => calls[k].fetched

(***************************************************************************)
(* C22.  For every Accepted result computed from a distribution sorted     *)
(* ascending by p with all p in [0, 1]: adjustedDist is non-decreasing in  *)
(* p, every isPareto point comes after every other point, every tail point *)
(* has p > surveyPct and every other point p <= surveyPct, and the point   *)
(* forced to (1, 1) is the last synthesized tail point, whose computed p   *)
(* and l are 1 already.                                                    *)
(***************************************************************************)
SortedWithinUnit ==
    /\ \A i \in 1..Len(distribution) :
        LessEq(Zero, distribution[i].p) /\ LessEq(distribution[i].p, One)
    /\ \A i \in 1..(Len(distribution) - 1) :
        LessEq(distribution[i].p, distribution[i + 1].p)

NonDecreasing ==
    \A k \in 1..(Len(result.adjustedDist) - 1) :
        LessEq(result.adjustedDist[k].p, result.adjustedDist[k + 1].p)

TailAfterOriginals ==
    \A j, k \in 1..Len(result.adjustedDist) :
        result.adjustedDist[j].isPareto /\ ~result.adjustedDist[k].isPareto => k < j

SplitAtSurveyPct ==
    \A k \in 1..Len(result.adjustedDist) :
        IF result.adjustedDist[k].isPareto
        THEN Greater(result.adjustedDist[k].p, result.surveyPct)
        ELSE LessEq(result.adjustedDist[k].p, result.surveyPct)

LastSynthesized == SynthesizedTail[Len(SynthesizedTail)]

C22_TailAfterOriginals ==
    Accepted /\ SortedWithinUnit =>
        /\ NonDecreasing /\ TailAfterOriginals /\ SplitAtSurveyPct
        /\ LastAdjusted.isPareto
        /\ LastSynthesized.p = One /\ LastSynthesized.l = One

\* a sorted distribution that ends at p = 1 and gets a tail of several points
C22_Witness ==
    /\ Accepted /\ SortedWithinUnit /\ result.paretoTailBins > 1
    /\ distribution[Len(distribution)].p = One
    /\ LastAdjusted.isPareto /\ LastSynthesized.p = One

(***************************************************************************)
(* C23.  For every call that passes the density check (so nasMean >       *)
(* surveyMean > 0) with a finite nasMean, densities that are numbers,      *)
(* gapShare > 0 and topDecileL < 1: 0 < ratio < 1 and 0 < ratio2 < 1,      *)
(* ln(1 - ratio2) and ln(minY / maxY) are negative, alpha is finite and    *)
(* > 1 and the result is Accepted.  A call that gets as far with gapShare  *)
(* <= 0 or topDecileL >= 1 is Rejected with the reason 'Invalid Pareto     *)
(* alpha', gapShare = 0 included.                                          *)
(***************************************************************************)
TopDecileL == distribution[FirstAtOrAbove].l
\* the densities in the order of the code, their minimum and their maximum
Densities == RelativeIncomes(distribution, FirstAtOrAbove)
MinY == MathMin(Densities)
MaxY == MathMax(Densities)
\* the call passes the density check
PassesDensityCheck ==
    /\ PreconditionsPass /\ HasTopDecile
    /\ ~NotEnoughBins(Densities) /\ ~InvalidDensities(MinY, MaxY)
GapExcess == Mul(GapShareUsed, Sub(Div(nasMean, surveyMean), One))
CaptureRatio == Div(One, Add(One, GapExcess))
CaptureRatio2 == Div(Sub(One, TopDecileL), Add(Sub(One, TopDecileL), GapExcess))

StrictlyBetween0And1(v) == Less(Zero, v) /\ Less(v, One)
\* v < 0 for a number or a term ln q
Negative(v) == IF IsLn(v) THEN SignLn(v) < 0 ELSE Less(v, Zero)

GapShared == Greater(GapShareUsed, Zero) /\ Less(TopDecileL, One)

AlphaAboveOne ==
    /\ StrictlyBetween0And1(CaptureRatio)
    /\ StrictlyBetween0And1(CaptureRatio2)
    /\ Negative(MathLog(Sub(One, CaptureRatio2)))
    /\ Negative(MathLog(Div(MinY, MaxY)))
    /\ result.adjusted
    /\ result.ratio = CaptureRatio /\ result.ratio2 = CaptureRatio2
    /\ ~LessEqOne(result.alpha) /\ IsFiniteReal(result.alpha)

RejectedForAlpha == ~result.adjusted /\ IsAlphaReason(result.reason)

C23_AlphaAboveOne ==
    Returned /\ PassesDensityCheck =>
        /\ GapShared /\ IsFinite(nasMean) /\ ~SomeDensityNaN => AlphaAboveOne
        /\ ~GapShared => RejectedForAlpha

\* the claim as stated: for every input with nasMean > surveyMean > 0
C23_AsStated ==
    Returned /\ PassesDensityCheck =>
        /\ GapShared => AlphaAboveOne
        /\ RejectedForAlpha => ~GapShared

\* the smallest step of the slider above 0: gapShare = 0.01
C23_Witness ==
    /\ Returned /\ ReachesAlpha /\ GapShared /\ GapShareUsed = <<1, 100>>
    /\ result.adjusted /\ ~LessEqOne(result.alpha)

(***************************************************************************)
(* C24.  The reason 'Cannot calculate alpha (identical incomes in top      *)
(* decile)' is never returned.  Every call that reaches the logRatio test  *)
(* has 0 < minY < maxY, or a density that is NaN: in the first case        *)
(* minY / maxY is not 1, in the second logRatio is NaN, and in neither is  *)
(* logRatio 0.  Identical densities are reported as 'Invalid income        *)
(* distribution in top decile'.                                            *)
(***************************************************************************)
IdenticalIncomesReported ==
    /\ ~result.adjusted
    /\ result.reason = <<"Cannot calculate alpha (identical incomes in top decile)">>

SpreadDensities == Less(Zero, MinY) /\ Less(MinY, MaxY)

IdenticalReportedAsInvalid ==
    PreconditionsPass /\ HasTopDecile /\ Cardinality(DensityPairs) >= 2
      /\ ~SomeDensityNaN /\ AllDensitiesEqual
        => /\ ~result.adjusted
           /\ result.reason = <<"Invalid income distribution in top decile">>

C24_IdenticalIncomesUnreachable ==
    Returned =>
        /\ ~IdenticalIncomesReported
        /\ PassesDensityCheck =>
            /\ SomeDensityNaN \/ SpreadDensities
            /\ SomeDensityNaN => IsNaN(LogRatio(MinY, MaxY))
            /\ LogRatio(MinY, MaxY) # Zero
        /\ IdenticalReportedAsInvalid

\* the claim as stated: every call that reaches the test has 0 < minY < maxY
C24_AsStated ==
    Returned =>
        /\ ~IdenticalIncomesReported
        /\ PassesDensityCheck => SpreadDensities /\ LogRatio(MinY, MaxY) # Zero
        /\ IdenticalReportedAsInvalid

\* a point without an income share in the top decile: the call reaches the
\* test with minY = NaN
C24_Witness ==
    /\ Returned /\ PassesDensityCheck /\ SomeDensityNaN
    /\ IsNaN(LogRatio(MinY, MaxY)) /\ RejectedForAlpha

(***************************************************************************)
(* C25.  For every Accepted result adjustedMean = surveyMean + gapShare *  *)
(* (nasMean - surveyMean).  Hence for 0 < gapShare <= 1 the adjusted mean  *)
(* is greater than surveyMean and at most nasMean, and it equals nasMean   *)
(* exactly when gapShare = 1.                                              *)
(***************************************************************************)
SharedGap == Add(surveyMean, Mul(GapShareUsed, Sub(nasMean, surveyMean)))

C25_AdjustedMean ==
    Accepted =>
        /\ result.adjustedMean = SharedGap
        /\ Greater(GapShareUsed, Zero) /\ LessEq(GapShareUsed, One) =>
            /\ Greater(result.adjustedMean, surveyMean)
            /\ LessEq(result.adjustedMean, nasMean)
        /\ result.adjustedMean = nasMean <=> GapShareUsed = One

\* the whole gap attributed to the top: the adjusted mean is the NAS mean
C25_Witness ==
    /\ Accepted /\ GapShareUsed = One
    /\ result.adjustedMean = nasMean /\ Greater(nasMean, surveyMean)

(***************************************************************************)
(* C26.  For every curve with at least 2 points and every query p,         *)
(* interpolateLorenz of the statistics module, LorenzChart.interpolate and *)
(* the interpolate of exportLorenzCSV return the same value.               *)
(***************************************************************************)
Interpolations ==
    { "interpolateLorenz", "interpolate", "exportLorenzCSV.interpolate" }

InterpolationCalled == out # NoResult /\ out.fn \in Interpolations

C26_SameInterpolation ==
    InterpolationCalled /\ HasCurve =>
        /\ out.value = interpolateLorenz(lorenz, out.p)
        /\ out.value = interpolate(lorenz, out.p)
        /\ out.value = exportLorenzInterpolate(lorenz, out.p)

\* a query strictly between the p of two points of different l, answered by
\* the interpolate of exportLorenzCSV with a value between them
C26_Witness ==
    /\ Called("exportLorenzCSV.interpolate") /\ Len(lorenz) = 3 /\ StrictlyAscending
    /\ out.p = <<3, 4>>
    /\ Less(lorenz[2].l, out.value) /\ Less(out.value, lorenz[3].l)

(***************************************************************************)
(* C29.  After clearCache() the cache holds no entry until a load started  *)
(* after the clear completes: a loadCountryData call that was in flight    *)
(* when clearCache ran never puts its data into the cache, and no country  *)
(* is fetched by two loads at the same time.                               *)
(***************************************************************************)
\* getLoadStatus().cachedCountries
cachedCountries == { c \in Countries : cache[c] # NoData }

\* the cache entry of the call's country is the object the call parsed
CachedBy(call) ==
    call.fetched /\ call.stage = "resolved" /\ cache[call.country] = call.value

RepopulatedAfterClear == \E k \in 1..Len(calls) : calls[k].cleared /\ CachedBy(calls[k])

FetchedTwiceAtOnce ==
    \E j, k \in 1..Len(calls) :
        /\ j # k
        /\ calls[j].country = calls[k].country
        /\ InFlight(calls[j]) /\ InFlight(calls[k])

C29_AsStated ==
    /\ ~RepopulatedAfterClear
    /\ ~FetchedTwiceAtOnce

(***************************************************************************)
(* C21.  Last request wins: once every call of loadDistribution has        *)
(* settled and the call started last has resolved, currentDistribution and *)
(* currentNasData are the data of that call and adjustmentResult is the    *)
(* result computed from them, in whatever order the fetches resolved.      *)
(***************************************************************************)
AllSettled == loads = <<>> /\ lastLoad.stage = "resolved"

\* the state holds the data of (c, year) and what is derived from them
HoldsDataOf(c, year) ==
    /\ state.currentDistribution = getDistribution(c, year)
    /\ state.currentNasData = getNasForCountryYear(c, year)
    /\ state.adjustmentResult = Held(state, AdjustmentOf(state))

C21_AsStated == AllSettled => HoldsDataOf(lastLoad.country, lastLoad.year)

(***************************************************************************)
(* C27.  In every reachable state of the application adjustedGini,         *)
(* chartData.adjustedLorenz and chartData.paretoPoints are non-null        *)
(* exactly when adjustmentResult exists and is adjusted, and they are then *)
(* those of that result: a rejected result leaves no adjusted curve, Gini  *)
(* or Pareto points of an earlier accepted one.                            *)
(***************************************************************************)
HasAdjustment == state.adjustmentResult # NullObject
AdjustmentAccepted == HasAdjustment /\ state.adjustmentResult.adjusted
AdjustmentRejected == HasAdjustment /\ ~state.adjustmentResult.adjusted

\* the adjusted data are those of the result the state holds
AdjustedDataCurrent ==
    /\ state.chartData.adjustedLorenz = state.adjustmentResult.adjustedDist
    /\ state.chartData.paretoPoints.of = state.adjustmentResult.adjustedDist.of
    /\ state.adjustedGini = GiniOfAdjusted(state.adjustmentResult.adjustedDist)

C27_NoStaleAdjusted ==
    /\ state.adjustedGini # Null <=> AdjustmentAccepted
    /\ state.chartData.adjustedLorenz # NullObject <=> AdjustmentAccepted
    /\ state.chartData.paretoPoints # NullObject <=> AdjustmentAccepted
    /\ AdjustmentAccepted => AdjustedDataCurrent

\* a rejected result for data that are accepted with the initial parameters
C27_Witness ==
    /\ AdjustmentRejected
    /\ state.adjustedGini = Null
    /\ state.chartData.adjustedLorenz = NullObject
    /\ AdjustmentOf([state EXCEPT !.gapShare = InitialState.gapShare,
                                  !.nasSource = InitialState.nasSource]).adjusted

(***************************************************************************)
(* C28.  Whenever an export handler makes its export call, the country and *)
(* year it passes, and the selection badge, are the country and year for   *)
(* which state.currentDistribution was fetched.                            *)
(***************************************************************************)
FetchedFor == <<state.currentDistribution.countryCode, state.currentDistribution.year>>

C28_AsStated ==
    exported # NoExport =>
        /\ state.currentDistribution # NullObject
        /\ <<exported.country, exported.year>> = FetchedFor
        /\ elements.selectionBadge = FetchedFor

(***************************************************************************)
(* C30.  Whenever a call of loadDistribution ends in its error path (its   *)
(* fetch fails, or the file has no data for the year), at that moment      *)
(* currentDistribution, currentNasData and adjustmentResult are null, the  *)
(* three export buttons are disabled and the loading overlay is hidden.    *)
(***************************************************************************)
NoDataFor(c, year) == year \notin DOMAIN DistributionJson(c)

\* a step in which a call of loadDistribution runs its catch
EndsInError ==
    \/ \E k \in 1..Len(loads) : FetchFailedOf(k)
    \/ \E k \in 1..Len(loads) :
        FetchResolvedOf(k) /\ NoDataFor(loads[k].country, loads[k].year)
    \/ /\ loadDistribution
       /\ state.selectedCountry # NoCountry
       /\ cache[state.selectedCountry] # NoData
       /\ NoDataFor(state.selectedCountry, state.selectedYear)

\* the application is cleared after the step
ClearedAfter ==
    /\ state'.currentDistribution = NullObject
    /\ state'.currentNasData = NullObject
    /\ state'.adjustmentResult = NullObject
    /\ elements'.exportDistBtn.disabled
    /\ elements'.exportSummaryBtn.disabled
    /\ elements'.exportLorenzBtn.disabled
    /\ elements'.loadingOverlay = "none"

C30_AsStated == [][EndsInError => ClearedAfter]_vars

=========================================================================
